---- MODULE Spec2Model ----
(***************************************************************************)
(* View-change proofs of the Sumeragi consensus                            *)
(* (core/src/sumeragi/view_change.rs): SignedProof, ProofBuilder and       *)
(* ProofChain, with the operations insert_proof, merge and prune applied   *)
(* to one peer's chain (Spec, SpecDecoded); the decoding and signing of a  *)
(* block (data_model/src/block.rs, SpecBlock); the lifecycle of a          *)
(* transaction, accept -> validate -> proceed (iroha/src/tx.rs, SpecTx);   *)
(* and the two sessions of a peer connection, handshake and framed         *)
(* messages (iroha_p2p/src/peer.rs: SpecPeer with faults of the network,   *)
(* SpecPeerLive and SpecPeerStart without, under fair scheduling).         *)
(* SpecFixed is the proof chain under one fixed latest hash.               *)
(*                                                                         *)
(* A Rust panic (an out-of-bounds slice index) is an outcome of its own:   *)
(* the operators that can panic return a record with a `panic` field, and  *)
(* a call that panics ends the process (no further action is enabled).     *)
(***************************************************************************)
EXTENDS Integers, Sequences, FiniteSets, TLC

\* ------------------------------------------------------------------ bounds
\* Number of peers in the topology (n = 4, f = 1 in the scenarios).
NumPeers == 4
\* Longest proof chain explored.
MaxChain == 2
\* Most signatures the explored chain stores, all proofs together.
MaxSigs == 3

\* Values of Option<HashOf<SignedBlock>>.
Hashes == {"h", "h2"}

\* ---------------------------------------------------------------- topology
\* The topology is an ordered sequence of peers; the peer at node position
\* p (0-based) holds the key pair p + 1.
Topology == [i \in 1..NumPeers |-> i]

\* A key pair that belongs to no peer of the topology.
OutsiderKey == NumPeers + 1

\* topology.as_ref()[node_pos as usize].public_key(); the caller has checked
\* node_pos < len, otherwise the index panics.
public_key_at(topology, node_pos) == topology[node_pos + 1]

\* Topology::max_faults: f = floor((n - 1) / 3).
max_faults(topology) == (Len(topology) - 1) \div 3

\* ------------------------------------------------------------- signatures
\* SignatureOf::new(private_key, payload): a signature names the key pair
\* that made it and the payload it covers.
SignatureOf_new(private_key, payload) == [key |-> private_key, payload |-> payload]

\* SignatureOf::verify(public_key, payload).is_ok()
SignatureOf_verify(signature, public_key, payload) ==
    /\ signature.key = public_key
    /\ signature.payload = payload

\* ------------------------------------------------------------------ proofs
ProofPayload(latest_block_hash, view_change_index) ==
    [latest_block_hash |-> latest_block_hash, view_change_index |-> view_change_index]

\* ProofBuilder::new: a proof with no signature.
ProofBuilder_new(latest_block_hash, view_change_index) ==
    [signatures |-> <<>>, payload |-> ProofPayload(latest_block_hash, view_change_index)]

\* ProofBuilder::sign: appends exactly one signature over the payload.
ProofBuilder_sign(self, node_pos, private_key) ==
    [self EXCEPT !.signatures =
        Append(@, [node_pos |-> node_pos,
                   signature |-> SignatureOf_new(private_key, self.payload)])]

\* SignedProof::merge_signatures: for each incoming (node_pos, signature) in
\* order, index the topology (panics when node_pos >= len) and push the pair
\* when the signature verifies over self.payload.  What was pushed before a
\* panic stays pushed.
RECURSIVE merge_signatures(_, _, _)
merge_signatures(self, other, topology) ==
    IF other = <<>> THEN [proof |-> self, panic |-> FALSE]
    ELSE LET s == Head(other) IN
         IF s.node_pos >= Len(topology)
         THEN [proof |-> self, panic |-> TRUE]
         ELSE LET public_key == public_key_at(topology, s.node_pos)
                  next == IF SignatureOf_verify(s.signature, public_key, self.payload)
                          THEN [self EXCEPT !.signatures = Append(@, s)]
                          ELSE self
              IN merge_signatures(next, Tail(other), topology)

\* The filter closure of SignedProof::verify on the signatures in order:
\* the number of signatures that verify, or a panic at the first node_pos
\* that is out of range.  Every signature counts, also a repeated one.
RECURSIVE valid_count(_, _, _)
valid_count(signatures, payload, topology) ==
    IF signatures = <<>> THEN [panic |-> FALSE, count |-> 0]
    ELSE LET s == Head(signatures) IN
         IF s.node_pos >= Len(topology)
         THEN [panic |-> TRUE, count |-> 0]
         ELSE LET public_key == public_key_at(topology, s.node_pos)
                  rest == valid_count(Tail(signatures), payload, topology)
              IN [panic |-> rest.panic,
                  count |-> rest.count +
                            (IF SignatureOf_verify(s.signature, public_key, payload)
                             THEN 1 ELSE 0)]

\* Mutation of verify: the quorum comparison made strict.
verify_Strict(self, topology) ==
    LET c == valid_count(self.signatures, self.payload, topology)
    IN [panic |-> c.panic,
        ok |-> (~c.panic) /\ c.count > max_faults(topology) + 1]

\* SignedProof::verify: valid_count >= topology.max_faults() + 1
verify(self, topology) ==
    LET c == valid_count(self.signatures, self.payload, topology)
    IN [panic |-> c.panic,
        ok |-> (~c.panic) /\ c.count >= max_faults(topology) + 1]

\* ------------------------------------------------------------- proof chain
\* The take_while of ProofChain::verify_with_state from entry i (1-based):
\* hash, then index, then verify, short-circuiting in that order.
RECURSIVE verify_from(_, _, _, _)
verify_from(self, i, topology, latest_block_hash) ==
    IF i > Len(self) THEN [panic |-> FALSE, count |-> i - 1]
    ELSE LET proof == self[i] IN
         IF \/ proof.payload.latest_block_hash # latest_block_hash
            \/ proof.payload.view_change_index # i - 1
         THEN [panic |-> FALSE, count |-> i - 1]
         ELSE LET v == verify(proof, topology) IN
              IF v.panic THEN [panic |-> TRUE, count |-> i - 1]
              ELSE IF v.ok THEN verify_from(self, i + 1, topology, latest_block_hash)
              ELSE [panic |-> FALSE, count |-> i - 1]

\* ProofChain::verify_with_state
verify_with_state(self, topology, latest_block_hash) ==
    verify_from(self, 1, topology, latest_block_hash)

\* The take_while of ProofChain::prune from entry i: hash and index only.
RECURSIVE prune_count(_, _, _)
prune_count(self, i, latest_block_hash) ==
    IF i > Len(self) THEN i - 1
    ELSE IF /\ self[i].payload.latest_block_hash = latest_block_hash
            /\ self[i].payload.view_change_index = i - 1
         THEN prune_count(self, i + 1, latest_block_hash)
         ELSE i - 1

\* Mutation of prune: an entry is kept only while its signatures verify too.
prune_Verified(self, latest_block_hash) ==
    SubSeq(self, 1, verify_with_state(self, Topology, latest_block_hash).count)

\* ProofChain::prune: truncate to the counted prefix.
prune(self, latest_block_hash) ==
    SubSeq(self, 1, prune_count(self, 1, latest_block_hash))

\* Mutation of insert_proof: the index is checked before the hash.
insert_proof_IndexFirst(self, new_proof, topology, latest_block_hash) ==
    LET next_unfinished_view_change ==
            verify_with_state(self, topology, latest_block_hash)
        k == next_unfinished_view_change.count
    IN IF next_unfinished_view_change.panic
       THEN [chain |-> self, res |-> "panic"]
       ELSE IF new_proof.payload.view_change_index # k
       THEN [chain |-> self, res |-> "ViewChangeNotFound"]
       ELSE IF new_proof.payload.latest_block_hash # latest_block_hash
       THEN [chain |-> self, res |-> "BlockHashMismatch"]
       ELSE IF k < Len(self)
       THEN LET m == merge_signatures(self[k + 1], new_proof.signatures, topology)
            IN [chain |-> [self EXCEPT ![k + 1] = m.proof],
                res |-> IF m.panic THEN "panic" ELSE "Ok"]
       ELSE [chain |-> Append(self, new_proof), res |-> "Ok"]

\* Mutation of insert_proof: the index is compared with the length of the
\* chain instead of the next unfinished view change.
insert_proof_LenIndex(self, new_proof, topology, latest_block_hash) ==
    IF new_proof.payload.latest_block_hash # latest_block_hash
    THEN [chain |-> self, res |-> "BlockHashMismatch"]
    ELSE
      LET next_unfinished_view_change ==
              verify_with_state(self, topology, latest_block_hash)
          k == next_unfinished_view_change.count
      IN IF next_unfinished_view_change.panic
         THEN [chain |-> self, res |-> "panic"]
         ELSE IF new_proof.payload.view_change_index # Len(self)
         THEN [chain |-> self, res |-> "ViewChangeNotFound"]
         ELSE IF k < Len(self)
         THEN LET m == merge_signatures(self[k + 1], new_proof.signatures, topology)
              IN [chain |-> [self EXCEPT ![k + 1] = m.proof],
                  res |-> IF m.panic THEN "panic" ELSE "Ok"]
         ELSE [chain |-> Append(self, new_proof), res |-> "Ok"]

\* Mutation of insert_proof: the proof is pushed also when the chain is
\* incomplete.
insert_proof_AlwaysPush(self, new_proof, topology, latest_block_hash) ==
    IF new_proof.payload.latest_block_hash # latest_block_hash
    THEN [chain |-> self, res |-> "BlockHashMismatch"]
    ELSE
      LET next_unfinished_view_change ==
              verify_with_state(self, topology, latest_block_hash)
          k == next_unfinished_view_change.count
      IN IF next_unfinished_view_change.panic
         THEN [chain |-> self, res |-> "panic"]
         ELSE IF new_proof.payload.view_change_index # k
         THEN [chain |-> self, res |-> "ViewChangeNotFound"]
         ELSE [chain |-> Append(self, new_proof), res |-> "Ok"]

\* ProofChain::insert_proof
insert_proof(self, new_proof, topology, latest_block_hash) ==
    IF new_proof.payload.latest_block_hash # latest_block_hash
    THEN [chain |-> self, res |-> "BlockHashMismatch"]
    ELSE
      LET next_unfinished_view_change ==
              verify_with_state(self, topology, latest_block_hash)
          k == next_unfinished_view_change.count
      IN IF next_unfinished_view_change.panic
         THEN [chain |-> self, res |-> "panic"]
         ELSE IF new_proof.payload.view_change_index # k
         THEN [chain |-> self, res |-> "ViewChangeNotFound"]
         ELSE IF k < Len(self)
         THEN LET m == merge_signatures(self[k + 1], new_proof.signatures, topology)
              IN [chain |-> [self EXCEPT ![k + 1] = m.proof],
                  res |-> IF m.panic THEN "panic" ELSE "Ok"]
         ELSE [chain |-> Append(self, new_proof), res |-> "Ok"]

\* Mutation of merge: the emptiness check of the pruned chain is left out.
merge_NoEmptyCheck(self, other, topology, latest_block_hash) ==
    LET pruned == prune(other, latest_block_hash)
        next_unfinished_view_change ==
            verify_with_state(self, topology, latest_block_hash)
        k == next_unfinished_view_change.count
        is_proof_chain_incomplete == k < Len(self)
        other_contain_additional_proofs == k < Len(pruned)
    IN IF next_unfinished_view_change.panic
       THEN [chain |-> self, res |-> "panic"]
       ELSE IF is_proof_chain_incomplete /\ other_contain_additional_proofs
       THEN LET m == merge_signatures(self[k + 1], pruned[k + 1].signatures, topology)
            IN [chain |-> [self EXCEPT ![k + 1] = m.proof],
                res |-> IF m.panic THEN "panic" ELSE "Ok"]
       ELSE IF (~is_proof_chain_incomplete) /\ other_contain_additional_proofs
       THEN [chain |-> Append(self, pruned[k + 1]), res |-> "Ok"]
       ELSE IF is_proof_chain_incomplete /\ ~other_contain_additional_proofs
       THEN [chain |-> self, res |-> "ViewChangeNotFound"]
       ELSE [chain |-> self, res |-> "Ok"]

\* ProofChain::merge
merge(self, other, topology, latest_block_hash) ==
    LET pruned == prune(other, latest_block_hash) IN
    IF pruned = <<>>
    THEN [chain |-> self, res |-> "BlockHashMismatch"]
    ELSE
      LET next_unfinished_view_change ==
              verify_with_state(self, topology, latest_block_hash)
          k == next_unfinished_view_change.count
          is_proof_chain_incomplete == k < Len(self)
          other_contain_additional_proofs == k < Len(pruned)
      IN IF next_unfinished_view_change.panic
         THEN [chain |-> self, res |-> "panic"]
         ELSE IF is_proof_chain_incomplete /\ other_contain_additional_proofs
         THEN LET m == merge_signatures(self[k + 1], pruned[k + 1].signatures, topology)
              IN [chain |-> [self EXCEPT ![k + 1] = m.proof],
                  res |-> IF m.panic THEN "panic" ELSE "Ok"]
         ELSE IF (~is_proof_chain_incomplete) /\ other_contain_additional_proofs
         THEN [chain |-> Append(self, pruned[k + 1]), res |-> "Ok"]
         ELSE IF is_proof_chain_incomplete /\ ~other_contain_additional_proofs
         THEN [chain |-> self, res |-> "ViewChangeNotFound"]
         ELSE [chain |-> self, res |-> "Ok"]

\* ------------------------------------------------------------------ inputs
\* Peers whose signatures arrive (P1, P2, P3 of the scenarios).
Signers == {1, 2, 3}

\* (node_pos, key pair) of an incoming signature: a peer signing at its own
\* position, an outsider signing at position 0, and an outsider naming a
\* position past the end of the topology.
SignChoices ==
    {<<p, Topology[p + 1]>> : p \in Signers}
        \cup {<<0, OutsiderKey>>, <<NumPeers, OutsiderKey>>}

\* The signers of an incoming proof, in the order of its signatures.
SignSeqs ==
    {<<>>} \cup {<<c>> : c \in SignChoices}
           \cup {<<c, d>> : c \in SignChoices, d \in SignChoices}

\* ProofBuilder::new followed by one ProofBuilder::sign per signer: a proof
\* as built locally (one signature) or as decoded from the network (any
\* number of signatures).
RECURSIVE SignedBy(_, _)
SignedBy(proof, by) ==
    IF by = <<>> THEN proof
    ELSE SignedBy(ProofBuilder_sign(proof, Head(by)[1], Head(by)[2]), Tail(by))

NewProofs ==
    {SignedBy(ProofBuilder_new(h, i), by) :
        h \in Hashes, i \in 0..MaxChain, by \in SignSeqs}

\* A remote chain as it arrives for merge: proofs with the same signers over
\* one hash with consecutive indices, starting at index 0 or (malformed) at 1.
OtherChains ==
    {[j \in 1..n |-> SignedBy(ProofBuilder_new(h, s + j - 1), by)] :
        h \in Hashes, s \in 0..1, n \in 0..MaxChain, by \in SignSeqs}

\* A ProofChain as Decode yields it from the wire: any sequence of proofs,
\* every entry with its own hash and index, no or one signature each.
PayloadSeqs ==
    UNION {[1..n -> Hashes \X (0..(MaxChain - 1))] : n \in 0..MaxChain}

DecodedChains ==
    {[j \in 1..Len(ps) |-> SignedBy(ProofBuilder_new(ps[j][1], ps[j][2]), by)] :
        ps \in PayloadSeqs, by \in {<<>>} \cup {<<c>> : c \in SignChoices}}

\* ------------------------------------------------------------------- state
VARIABLES
    chain,   \* this peer's ProofChain
    call,    \* the call in progress on it: operation, arguments, the chain
             \* before the call and the result; op = "idle" between calls
    blk,     \* the block being decoded and signed, with its last operation
    txn,     \* the transaction in its lifecycle, with the world state
    peer     \* the two peer sessions of a connection and the bytes in flight

vars == <<chain, call, blk, txn, peer>>

NoProof == ProofBuilder_new("h", 0)

Call(op, pre, new_proof, other, latest_block_hash, res) ==
    [op |-> op, pre |-> pre, new_proof |-> new_proof, other |-> other,
     latest_block_hash |-> latest_block_hash, res |-> res]

Idle == Call("idle", <<>>, NoProof, <<>>, "h", "Ok")

RECURSIVE SigTotal(_)
SigTotal(c) == IF c = <<>> THEN 0 ELSE Len(Head(c).signatures) + SigTotal(Tail(c))

\* The explored chains stay within MaxChain proofs and MaxSigs signatures.
WithinBounds(c) == Len(c) <= MaxChain /\ SigTotal(c) <= MaxSigs

\* No block, no transaction and no connection are in hand while the proof
\* chain is worked on.
NoBlock == [op |-> "none"]
NoTxn == [op |-> "none"]
NoPeer == [op |-> "none"]

\* ProofChain::default()
Init ==
    /\ chain = <<>>
    /\ call = Idle
    /\ blk = NoBlock
    /\ txn = NoTxn
    /\ peer = NoPeer

InsertProof ==
    /\ call.op = "idle"
    /\ \E new_proof \in NewProofs, latest_block_hash \in Hashes :
         LET r == insert_proof(chain, new_proof, Topology, latest_block_hash) IN
         /\ WithinBounds(r.chain)
         /\ chain' = r.chain
         /\ call' = Call("insert_proof", chain, new_proof, <<>>, latest_block_hash, r.res)
    /\ UNCHANGED <<blk, txn, peer>>

Merge ==
    /\ call.op = "idle"
    /\ \E other \in OtherChains, latest_block_hash \in Hashes :
         LET r == merge(chain, other, Topology, latest_block_hash) IN
         /\ WithinBounds(r.chain)
         /\ chain' = r.chain
         /\ call' = Call("merge", chain, NoProof, other, latest_block_hash, r.res)
    /\ UNCHANGED <<blk, txn, peer>>

Prune ==
    /\ call.op = "idle"
    /\ \E latest_block_hash \in Hashes :
         /\ chain' = prune(chain, latest_block_hash)
         /\ call' = Call("prune", chain, NoProof, <<>>, latest_block_hash, "Ok")
    /\ UNCHANGED <<blk, txn, peer>>

\* The caller takes the result and goes on; a panic is never returned from.
Return ==
    /\ call.op # "idle"
    /\ call.res # "panic"
    /\ call' = Idle
    /\ UNCHANGED <<chain, blk, txn, peer>>

Next == InsertProof \/ Merge \/ Prune \/ Return

Spec == Init /\ [][Next]_vars

\* A chain decoded from the wire and pruned by its receiver.
InitDecoded ==
    /\ chain \in DecodedChains
    /\ call = Idle
    /\ blk = NoBlock
    /\ txn = NoTxn
    /\ peer = NoPeer

NextDecoded == Prune \/ Return

SpecDecoded == InitDecoded /\ [][NextDecoded]_vars

\* ------------------------------------------------------- notions of the spec
\* A stored (node_pos, signature) pair is valid for a payload when node_pos
\* is a position of the topology and the signature verifies under the key at
\* that position; an out-of-range position makes the pair invalid.
ValidPair(s, payload, topology) ==
    /\ s.node_pos < Len(topology)
    /\ SignatureOf_verify(s.signature, public_key_at(topology, s.node_pos), payload)

\* The valid pairs of a signature list, in order.
ValidPairs(signatures, payload, topology) ==
    LET Test(s) == ValidPair(s, payload, topology) IN SelectSeq(signatures, Test)

\* The distinct node positions that hold a valid signature of the proof.
ValidPositions(proof, topology) ==
    {proof.signatures[i].node_pos : i \in
        {j \in 1..Len(proof.signatures) :
            ValidPair(proof.signatures[j], proof.payload, topology)}}

\* View-change quorum f + 1.
Quorum(topology) == max_faults(topology) + 1

\* Entry i (1-based) of a chain satisfies the three predicates of a valid
\* prefix entry: hash, index, at least f + 1 valid signatures.
GoodEntry(c, i, topology, h) ==
    /\ c[i].payload.latest_block_hash = h
    /\ c[i].payload.view_change_index = i - 1
    /\ Len(ValidPairs(c[i].signatures, c[i].payload, topology)) >= Quorum(topology)

\* Length of the longest prefix all of whose entries are good.
LongestValidPrefix(c, topology, h) ==
    CHOOSE k \in 0..Len(c) :
        /\ \A i \in 1..k : GoodEntry(c, i, topology, h)
        /\ k < Len(c) => ~GoodEntry(c, k + 1, topology, h)

\* The call in progress is an insert_proof / a merge.
InInsert == call.op = "insert_proof"
InMerge == call.op = "merge"

\* verify_with_state of the chain before the call, with the call's hash.
PreK == verify_with_state(call.pre, Topology, call.latest_block_hash)

\* The valid signature of peer p over (h, i), at its own position.
PeerSig(p, h, i) ==
    [node_pos |-> p, signature |-> SignatureOf_new(Topology[p + 1], ProofPayload(h, i))]

\* ------------------------------------------------------------------ claims

\* C1: SignedProof.verify(proof, topology) is true if and only if at least
\* floor((n-1)/3)+1 DISTINCT node positions hold a valid signature of the
\* proof; a repeated (node_pos, signature) pair does not raise the count.
\* Stated of every proof of the chain on which verify returns.
C1_VerifyCountsDistinctPositions ==
    \A i \in 1..Len(chain) :
        LET v == verify(chain[i], Topology) IN
        ~v.panic =>
            (v.ok <=> Cardinality(ValidPositions(chain[i], Topology)) >= Quorum(Topology))

\* C2: a signature whose node_pos is >= n is an invalid signature, never a
\* crash: every call of insert_proof and merge completes normally.
C2_OutOfRangeNeverPanics == call.res # "panic"

\* C3: insert_proof returns BlockHashMismatch whenever the proof's hash differs
\* from latest_hash, whatever its index and signatures, and leaves the chain
\* unchanged.
C3_HashMismatchRejected ==
    (InInsert /\ call.new_proof.payload.latest_block_hash # call.latest_block_hash)
        => (call.res = "BlockHashMismatch" /\ chain = call.pre)

\* C3 witness: a proof whose index is the next unfinished one for its own
\* hash and that carries a valid signature is refused for the hash alone, on
\* a chain that is not empty.
C3_Witness ==
    /\ InInsert
    /\ call.new_proof.payload.latest_block_hash # call.latest_block_hash
    /\ call.res = "BlockHashMismatch"
    /\ Len(call.pre) > 0
    /\ ValidPositions(call.new_proof, Topology) # {}
    /\ LET own == verify_with_state(call.pre, Topology,
                                    call.new_proof.payload.latest_block_hash)
       IN ~own.panic /\ own.count = call.new_proof.payload.view_change_index

\* C4: with a matching hash, insert_proof returns ViewChangeNotFound whenever
\* the proof's index differs from k = verify_with_state(chain, topology,
\* latest_hash) computed before the call, and leaves the chain unchanged.
\* (k is a value only when verify_with_state returns.)
C4_WrongIndexRejected ==
    (/\ InInsert
     /\ call.new_proof.payload.latest_block_hash = call.latest_block_hash
     /\ ~PreK.panic
     /\ call.new_proof.payload.view_change_index # PreK.count)
        => (call.res = "ViewChangeNotFound" /\ chain = call.pre)

\* C4 witness (scenario S4): slot 0 is complete, so k = 1, and a proof for
\* index 2 with a quorum of valid signatures is refused.
C4_Witness ==
    /\ InInsert
    /\ call.new_proof.payload.latest_block_hash = call.latest_block_hash
    /\ Len(call.pre) = 1
    /\ ~PreK.panic /\ PreK.count = 1
    /\ call.new_proof.payload.view_change_index = 2
    /\ Cardinality(ValidPositions(call.new_proof, Topology)) >= Quorum(Topology)
    /\ call.res = "ViewChangeNotFound"

\* C5: when insert_proof succeeds, with k the next unfinished view change
\* before the call: if k < len(chain) the incoming signatures that are valid
\* for chain[k] are appended to chain[k] in their order and the length is
\* unchanged; otherwise the proof is appended and the length grows by one.
\* Every entry at another index is unchanged.
C5_InsertEffect ==
    (InInsert /\ call.res = "Ok") =>
        LET k == PreK.count IN
        IF k < Len(call.pre)
        THEN /\ Len(chain) = Len(call.pre)
             /\ chain[k + 1].payload = call.pre[k + 1].payload
             /\ chain[k + 1].signatures =
                    call.pre[k + 1].signatures \o
                        ValidPairs(call.new_proof.signatures,
                                   call.pre[k + 1].payload, Topology)
             /\ \A j \in 1..Len(call.pre) : j # k + 1 => chain[j] = call.pre[j]
        ELSE /\ Len(chain) = Len(call.pre) + 1
             /\ chain[Len(chain)] = call.new_proof
             /\ \A j \in 1..Len(call.pre) : chain[j] = call.pre[j]

\* C5 witness: a signature is merged into the second slot of a chain of two
\* proofs, the first of which is complete.
C5_Witness ==
    /\ InInsert /\ call.res = "Ok"
    /\ Len(call.pre) = 2 /\ PreK.count = 1
    /\ Len(chain) = 2
    /\ Len(chain[2].signatures) > Len(call.pre[2].signatures)

\* Scenario S2: f = 1; the chain holds one proof for (h, 0) with the valid
\* signatures of P1 and P2, and a proof for (h, 0) signed by P3 is inserted
\* with latest hash h.
S2_Scenario ==
    /\ InInsert
    /\ max_faults(Topology) = 1
    /\ Len(call.pre) = 1
    /\ call.pre[1].payload = ProofPayload("h", 0)
    /\ call.pre[1].signatures \in
           {<<PeerSig(1, "h", 0), PeerSig(2, "h", 0)>>,
            <<PeerSig(2, "h", 0), PeerSig(1, "h", 0)>>}
    /\ call.new_proof =
           [signatures |-> <<PeerSig(3, "h", 0)>>, payload |-> ProofPayload("h", 0)]
    /\ call.latest_block_hash = "h"

\* C6 as stated: in scenario S2 insert_proof returns ok, the chain length
\* stays 1, chain[0] then holds 3 valid signatures and verify_with_state is
\* still 1.
C6_AsStated ==
    S2_Scenario =>
        /\ call.res = "Ok"
        /\ Len(chain) = 1
        /\ Len(ValidPairs(chain[1].signatures, chain[1].payload, Topology)) = 3
        /\ verify_with_state(chain, Topology, "h") = [panic |-> FALSE, count |-> 1]

\* C6 as amended: in scenario S2 slot 0 is already complete (k = 1), so the
\* proof for index 0 is refused with ViewChangeNotFound and the chain is
\* unchanged: its length stays 1, chain[0] still holds the 2 valid signatures
\* of P1 and P2, and verify_with_state is still 1.
C6_LateSignatureRefused ==
    S2_Scenario =>
        /\ call.res = "ViewChangeNotFound"
        /\ chain = call.pre
        /\ Len(chain) = 1
        /\ Len(ValidPairs(chain[1].signatures, chain[1].payload, Topology)) = 2
        /\ verify_with_state(chain, Topology, "h") = [panic |-> FALSE, count |-> 1]

\* C6 witness: scenario S2 has happened.
C6_Witness == S2_Scenario /\ call.res = "ViewChangeNotFound"

\* C7: proof-count monotonicity: for every latest hash h, a call of
\* insert_proof, whatever it returns, leaves verify_with_state(chain, T, h)
\* greater than or equal to its value before the call.
C7_InsertMonotone ==
    InInsert =>
        \A h \in Hashes :
            LET before == verify_with_state(call.pre, Topology, h)
                after == verify_with_state(chain, Topology, h)
            IN ~before.panic => (~after.panic /\ after.count >= before.count)

\* C8: after any sequence of insert_proof, merge and prune,
\* verify_with_state(chain, T, h) is the length of the longest prefix in
\* which every entry i has hash h, index i and at least f + 1 valid
\* signatures under T.
C8_PrefixValidity ==
    \A h \in Hashes :
        LET v == verify_with_state(chain, Topology, h) IN
        ~v.panic /\ v.count = LongestValidPrefix(chain, Topology, h)

\* The first entry of `other` survives prune against h.
SurvivesPrune(other, h) ==
    /\ other # <<>>
    /\ other[1].payload.latest_block_hash = h
    /\ other[1].payload.view_change_index = 0

\* Length of `other` after prune against h: its longest prefix with hash h
\* and index i at every entry i.
PrunedLen(other, h) ==
    CHOOSE n \in 0..Len(other) :
        /\ \A i \in 1..n : /\ other[i].payload.latest_block_hash = h
                           /\ other[i].payload.view_change_index = i - 1
        /\ n < Len(other) =>
               ~(/\ other[n + 1].payload.latest_block_hash = h
                 /\ other[n + 1].payload.view_change_index = n)

\* C9: the four cases of merge once `other` pruned is not empty, with
\* k = verify_with_state(self): (T,T) the signatures of other[k] are merged
\* into self[k]; (F,T) other[k] is appended; (T,F) ViewChangeNotFound, self
\* unchanged; (F,F) ok, self unchanged.  At most one slot of self changes.
C9_MergeCases ==
    (/\ InMerge
     /\ SurvivesPrune(call.other, call.latest_block_hash)
     /\ ~PreK.panic) =>
        LET k == PreK.count
            n == PrunedLen(call.other, call.latest_block_hash)
        IN
        /\ (k < Len(call.pre) /\ k < n) =>
               /\ call.res = "Ok"
               /\ chain = [call.pre EXCEPT ![k + 1].signatures =
                              @ \o ValidPairs(call.other[k + 1].signatures,
                                              call.pre[k + 1].payload, Topology)]
        /\ (k >= Len(call.pre) /\ k < n) =>
               /\ call.res = "Ok"
               /\ chain = Append(call.pre, call.other[k + 1])
        /\ (k < Len(call.pre) /\ k >= n) =>
               /\ call.res = "ViewChangeNotFound"
               /\ chain = call.pre
        /\ (k >= Len(call.pre) /\ k >= n) =>
               /\ call.res = "Ok"
               /\ chain = call.pre

\* C10: merge returns BlockHashMismatch and leaves self unchanged whenever
\* `other` is empty after prune: it was empty, or its first entry does not
\* have the latest hash and index 0; also when self is complete.
C10_EmptyOtherRejected ==
    (InMerge /\ ~SurvivesPrune(call.other, call.latest_block_hash))
        => (call.res = "BlockHashMismatch" /\ chain = call.pre)

\* C10 witness: self is complete and not empty, and a remote chain whose
\* first entry has index 0 but another hash is refused.
C10_Witness ==
    /\ InMerge
    /\ call.other # <<>>
    /\ call.other[1].payload.view_change_index = 0
    /\ call.other[1].payload.latest_block_hash # call.latest_block_hash
    /\ Len(call.pre) > 0
    /\ ~PreK.panic /\ PreK.count = Len(call.pre)
    /\ call.res = "BlockHashMismatch"

\* C11: prune(latest) truncates the chain to its longest prefix whose entries
\* have hash = latest and index = position; the kept entries are unchanged and
\* signatures play no part, so an entry with too few or invalid signatures is
\* kept.
InPrune == call.op = "prune"

C11_PruneKeepsLongestMatchingPrefix ==
    InPrune =>
        /\ call.res = "Ok"
        /\ chain = SubSeq(call.pre, 1, PrunedLen(call.pre, call.latest_block_hash))

\* C11 witness: a decoded chain is cut in the middle, and the entry that is
\* kept has fewer valid signatures than the quorum.
C11_Witness ==
    /\ InPrune
    /\ 0 < Len(chain) /\ Len(chain) < Len(call.pre)
    /\ chain[1] = call.pre[1]
    /\ Len(ValidPairs(chain[1].signatures, chain[1].payload, Topology))
           < Quorum(Topology)
    /\ ~verify(chain[1], Topology).ok

\* ---------------------------------------------------------------- block.rs
\* Bounds of the block exploration: transactions per block, signatures added
\* to one block.
MaxTxs == 3
MaxBlockSigs == 2

\* The transactions a block can carry.
TransactionValues == {"tx_a", "tx_b"}

\* Option<T>
None == [some |-> FALSE, value |-> <<>>]
Some(value) == [some |-> TRUE, value |-> value]

\* A hash is the sequence of words of what was hashed: equal hashes have
\* equal preimages.
TransactionValue_hash(value) == <<value>>

\* One level of the merkle tree: hashes combined pairwise, the last leaf of
\* an odd level combined with itself.
RECURSIVE MerkleLevel(_)
MerkleLevel(hashes) ==
    IF hashes = <<>> THEN <<>>
    ELSE IF Len(hashes) = 1
    THEN << <<"(">> \o hashes[1] \o hashes[1] \o <<")">> >>
    ELSE << <<"(">> \o hashes[1] \o hashes[2] \o <<")">> >>
            \o MerkleLevel(SubSeq(hashes, 3, Len(hashes)))

\* MerkleTree::hash of the collected leaves: no root for no leaves.
RECURSIVE MerkleTree_hash(_)
MerkleTree_hash(hashes) ==
    IF hashes = <<>> THEN None
    ELSE IF Len(hashes) = 1 THEN Some(hashes[1])
    ELSE MerkleTree_hash(MerkleLevel(hashes))

BlockHeader(height, transactions_hash) ==
    [height |-> height, transactions_hash |-> transactions_hash]

BlockPayload(header, transactions) ==
    [header |-> header, transactions |-> transactions]

BlockSignature(node_pos, signature) ==
    [node_pos |-> node_pos, signature |-> signature]

SignedBlockV1(signatures, payload) ==
    [signatures |-> signatures, payload |-> payload]

\* SignedBlock::hash_of_payload
hash_of_payload(self) == <<"HashOf", self.payload>>

\* Mutation of sign: the new signature is put in front of the others.
sign_Front(self, private_key, node_pos) ==
    [self EXCEPT !.signatures =
        <<BlockSignature(node_pos, SignatureOf_new(private_key, self.payload))>> \o @]

\* SignedBlock::sign
sign(self, private_key, node_pos) ==
    [self EXCEPT !.signatures =
        Append(@, BlockSignature(node_pos, SignatureOf_new(private_key, self.payload)))]

BlockOk(block) == [err |-> "", block |-> block]
BlockErr(err) == [err |-> err, block |-> SignedBlockV1(<<>>, BlockPayload(BlockHeader(0, None), <<>>))]

\* SignedBlockCandidate::validate_header: "" when the header passes, the
\* error otherwise (its leading words; the rest of the message is fixed text).
validate_header(self) ==
    LET actual_txs_hash == self.payload.header.transactions_hash
        expected_txs_hash ==
            MerkleTree_hash([i \in 1..Len(self.payload.transactions) |->
                TransactionValue_hash(self.payload.transactions[i])])
    IN IF expected_txs_hash # actual_txs_hash
       THEN "Transactions' hash incorrect"
       ELSE ""

\* Mutation of validate: the header is not checked.
validate_NoHeader(self) ==
    IF self.payload.transactions = <<>>
    THEN BlockErr("Block is empty")
    ELSE BlockOk(SignedBlockV1(self.signatures, self.payload))

\* SignedBlockCandidate::validate, which Decode and Deserialize of
\* SignedBlockV1 run on the candidate they read.
validate(self) ==
    IF validate_header(self) # ""
    THEN BlockErr(validate_header(self))
    ELSE IF self.payload.transactions = <<>>
    THEN BlockErr("Block is empty")
    ELSE BlockOk(SignedBlockV1(self.signatures, self.payload))

\* ------------------------------------------------------------ block inputs
TransactionSeqs == UNION {[1..n -> TransactionValues] : n \in 0..MaxTxs}

MerkleRootOf(transactions) ==
    MerkleTree_hash([i \in 1..Len(transactions) |->
        TransactionValue_hash(transactions[i])])

\* Candidates as they are read from the wire: any transactions, a header
\* whose transactions_hash is absent or the root of some transaction list,
\* no signature or one that was made over another payload (signatures are
\* not verified when a block is decoded).
SignedBlockCandidates ==
    {SignedBlockV1(sigs, BlockPayload(BlockHeader(1, MerkleRootOf(hashed)), txs)) :
        txs \in TransactionSeqs, hashed \in TransactionSeqs,
        sigs \in {<<>>, <<BlockSignature(0, SignatureOf_new(OutsiderKey,
                             BlockPayload(BlockHeader(0, None), <<>>)))>>}}

\* ------------------------------------------------------------ block state
BlockCall(op, candidate, pre, private_key, node_pos, res) ==
    [op |-> op, candidate |-> candidate, pre |-> pre,
     private_key |-> private_key, node_pos |-> node_pos,
     err |-> res.err, block |-> res.block]

NoCandidate == BlockErr("").block

InitBlock ==
    /\ blk = BlockCall("start", NoCandidate, NoCandidate, 0, 0, BlockErr("no block"))
    /\ chain = <<>>
    /\ call = Idle
    /\ txn = NoTxn
    /\ peer = NoPeer

\* A candidate is read and validated.
Decode ==
    /\ blk.op = "start"
    /\ \E candidate \in SignedBlockCandidates :
         blk' = BlockCall("decode", candidate, NoCandidate, 0, 0, validate(candidate))
    /\ UNCHANGED <<chain, call, txn, peer>>

\* A peer signs the decoded block.
Sign ==
    /\ blk.op \in {"decode", "sign"}
    /\ blk.err = ""
    /\ Len(blk.block.signatures) - Len(blk.candidate.signatures) < MaxBlockSigs
    /\ \E c \in SignChoices :
         blk' = BlockCall("sign", blk.candidate, blk.block, c[2], c[1],
                          BlockOk(sign(blk.block, c[2], c[1])))
    /\ UNCHANGED <<chain, call, txn, peer>>

NextBlock == Decode \/ Sign

SpecBlock == InitBlock /\ [][NextBlock]_vars

InDecode == blk.op = "decode"
InSign == blk.op = "sign"

\* C12: decoding succeeds if and only if the transactions are not empty and
\* their recomputed merkle root equals header.transactions_hash; a decoded
\* block is the candidate, satisfies the merkle invariant, is not empty and
\* has its transactions_hash present; a wrong root is rejected with
\* "Transactions' hash incorrect".
C12_DecodeIffMerkleAndNonEmpty ==
    InDecode =>
        LET txs == blk.candidate.payload.transactions
            header == blk.candidate.payload.header
            rootOk == MerkleRootOf(txs) = header.transactions_hash
        IN
        /\ (blk.err = "") <=> (txs # <<>> /\ rootOk)
        /\ (blk.err = "") =>
              /\ blk.block = blk.candidate
              /\ blk.block.payload.transactions # <<>>
              /\ blk.block.payload.header.transactions_hash.some
              /\ MerkleRootOf(blk.block.payload.transactions)
                    = blk.block.payload.header.transactions_hash
        /\ ~rootOk => blk.err = "Transactions' hash incorrect"

\* C12 witness: a block of two transactions with their root in the header
\* and an unverified signature decodes.
C12_Witness ==
    /\ InDecode
    /\ blk.err = ""
    /\ blk.block.payload.transactions = <<"tx_a", "tx_b">>
    /\ blk.block.signatures # <<>>

\* C13: decoding a block whose transactions list is empty fails with "Block
\* is empty", also when header.transactions_hash still holds the merkle root
\* of the transactions that were removed.
C13_EmptyBlockIsEmpty ==
    (InDecode /\ blk.candidate.payload.transactions = <<>>)
        => blk.err = "Block is empty"

\* C14: sign appends exactly one BlockSignature(node_pos, signature over the
\* payload) at the end; the payload, the signatures present before and
\* hash_of_payload() are as before the call, and as decoded.
C14_SignAppendsOne ==
    InSign =>
        /\ blk.err = ""
        /\ blk.block.signatures =
              Append(blk.pre.signatures,
                     BlockSignature(blk.node_pos,
                         SignatureOf_new(blk.private_key, blk.pre.payload)))
        /\ blk.block.payload = blk.pre.payload
        /\ hash_of_payload(blk.block) = hash_of_payload(blk.pre)
        /\ blk.block.payload = blk.candidate.payload
        /\ hash_of_payload(blk.block) = hash_of_payload(blk.candidate)
        /\ SubSeq(blk.block.signatures, 1, Len(blk.candidate.signatures))
              = blk.candidate.signatures

\* C14 witness: a block that came with one signature has been signed twice.
C14_Witness ==
    /\ InSign
    /\ Len(blk.candidate.signatures) = 1
    /\ Len(blk.block.signatures) = 3
    /\ blk.block.signatures[3].node_pos = blk.node_pos

\* ------------------------------------------------------------------- tx.rs
\* Bounds of the transaction exploration: instructions per transaction,
\* signatures added by sign.
MaxInstructions == 2
MaxTxSigs == 2

\* Accounts: alice and the genesis account are registered in the world
\* state, nobody is not.  Each registered account has one signatory key.
Accounts == {"alice", "genesis", "nobody"}
genesis_account == "genesis"
KeyOf(account_id) == IF account_id = "alice" THEN 1 ELSE 2

\* The world state: the assets registered, the permission token of the
\* accounts, and the registered accounts.
WorldStateView(assets, token) ==
    [assets |-> assets, token |-> token, accounts |-> {"alice", "genesis"}]

WorldStateViews == {WorldStateView(a, t) : a \in SUBSET {"rose"}, t \in BOOLEAN}

\* Instructions and Execute::execute: the new world state, or an error.
Instructions == {"Register", "Unregister", "Revoke", "Fail"}

Execute(instruction, account_id, world_state_view) ==
    IF instruction = "Register"
    THEN IF "rose" \in world_state_view.assets
         THEN [ok |-> FALSE, wsv |-> world_state_view]
         ELSE [ok |-> TRUE,
               wsv |-> [world_state_view EXCEPT !.assets = @ \cup {"rose"}]]
    ELSE IF instruction = "Unregister"
    THEN IF "rose" \notin world_state_view.assets
         THEN [ok |-> FALSE, wsv |-> world_state_view]
         ELSE [ok |-> TRUE,
               wsv |-> [world_state_view EXCEPT !.assets = @ \ {"rose"}]]
    ELSE IF instruction = "Revoke"
    THEN [ok |-> TRUE, wsv |-> [world_state_view EXCEPT !.token = FALSE]]
    ELSE [ok |-> FALSE, wsv |-> world_state_view]

\* PermissionsValidatorBox::check_instruction: "" when permitted, the reason
\* of the denial otherwise.  DenyUnregister looks at the instruction, ByToken
\* at the world state it is given.
PermissionsValidators == {"AllowAll", "DenyAll", "DenyUnregister", "ByToken"}

check_instruction(permissions_validator, account_id, instruction, world_state_view) ==
    IF permissions_validator = "AllowAll" THEN ""
    ELSE IF permissions_validator = "DenyAll" THEN "denied"
    ELSE IF permissions_validator = "DenyUnregister"
    THEN IF instruction = "Unregister" THEN "cannot unregister" ELSE ""
    ELSE IF world_state_view.token THEN "" ELSE "no permission token"

\* Payload and its bytes; Hash::new over the bytes.
Payload(account_id, instructions, creation_time, time_to_live_ms) ==
    [account_id |-> account_id, instructions |-> instructions,
     creation_time |-> creation_time, time_to_live_ms |-> time_to_live_ms]

PayloadBytes(payload) ==
    <<payload.account_id, payload.instructions, payload.creation_time,
      payload.time_to_live_ms>>

Hash_new(bytes) == <<"Hash", bytes>>

\* Transaction { payload, signatures } and the states that follow it.
Transaction(payload, signatures) == [payload |-> payload, signatures |-> signatures]

Transaction_hash(self) == Hash_new(PayloadBytes(self.payload))

\* Signature: the public key it claims and the signature itself.
Signature_new(key_pair, payload) ==
    [public_key |-> key_pair, signature |-> SignatureOf_new(key_pair, payload)]

Signature_verify(self, payload) ==
    SignatureOf_verify(self.signature, self.public_key, payload)

\* Transaction::sign
Transaction_sign(self, key_pair) ==
    [self EXCEPT !.signatures = Append(@, Signature_new(key_pair, Transaction_hash(self)))]

\* Payload::check_instruction_len
check_instruction_len(payload, max_instruction_len) ==
    IF Len(payload.instructions) > max_instruction_len
    THEN <<"Too many instructions in payload">>
    ELSE <<>>

AllVerify(signatures, hash) ==
    \A i \in 1..Len(signatures) : Signature_verify(signatures[i], hash)

\* Mutation of from_transaction: the signatures are verified before the
\* instruction bound.
from_transaction_SignaturesFirst(transaction, max_instruction_number) ==
    IF ~AllVerify(transaction.signatures, Transaction_hash(transaction))
    THEN [err |-> <<"Failed to verify signatures">>, accepted |-> transaction]
    ELSE IF check_instruction_len(transaction.payload, max_instruction_number) # <<>>
    THEN [err |-> <<"Failed to accept transaction">>
                    \o check_instruction_len(transaction.payload, max_instruction_number),
          accepted |-> transaction]
    ELSE [err |-> <<>>,
          accepted |-> Transaction(transaction.payload, transaction.signatures)]

\* AcceptedTransaction::from_transaction: err is the chain of messages of the
\* error (the wrapping message first), empty on success.
from_transaction(transaction, max_instruction_number) ==
    IF check_instruction_len(transaction.payload, max_instruction_number) # <<>>
    THEN [err |-> <<"Failed to accept transaction">>
                    \o check_instruction_len(transaction.payload, max_instruction_number),
          accepted |-> transaction]
    ELSE IF ~AllVerify(transaction.signatures, Transaction_hash(transaction))
    THEN [err |-> <<"Failed to verify signatures">>, accepted |-> transaction]
    ELSE [err |-> <<>>,
          accepted |-> Transaction(transaction.payload, transaction.signatures)]

\* AcceptedTransaction::hash
AcceptedTransaction_hash(self) == Hash_new(PayloadBytes(self.payload))

\* ValidTransaction::hash
ValidTransaction_hash(self) == Hash_new(PayloadBytes(self.payload))

\* RejectedTransaction::hash
RejectedTransaction_hash(self) == Hash_new(PayloadBytes(self.payload))

\* TransactionRejectionReason; kind "" stands for Ok(()).
Reason(kind, detail) == [kind |-> kind, detail |-> detail]
NoReason == Reason("", "")

\* AcceptedTransaction::check_signature_condition: the account must exist,
\* and one of the signatures must be by its signatory.
check_signature_condition(self, world_state_view) ==
    IF self.payload.account_id \notin world_state_view.accounts
    THEN [err |-> "Account not found", ok |-> FALSE]
    ELSE [err |-> "",
          ok |-> \E i \in 1..Len(self.signatures) :
                     self.signatures[i].public_key = KeyOf(self.payload.account_id)]

\* Mutation of validate_instructions: the permission check reads the clone.
RECURSIVE validate_instructions_CheckClone(_, _, _, _, _, _)
validate_instructions_CheckClone(self, i, world_state_view_temp, world_state_view, permissions_validator, is_genesis) ==
    IF i > Len(self.payload.instructions)
    THEN [reason |-> NoReason, world_state_view_temp |-> world_state_view_temp]
    ELSE
      LET instruction == self.payload.instructions[i]
          account_id == self.payload.account_id
          e == Execute(instruction, account_id, world_state_view_temp)
      IN IF ~e.ok
         THEN [reason |-> Reason("InstructionExecution", instruction),
               world_state_view_temp |-> world_state_view_temp]
         ELSE IF /\ ~is_genesis
                 /\ check_instruction(permissions_validator, account_id,
                                      instruction, e.wsv) # ""
         THEN [reason |-> Reason("NotPermitted",
                     check_instruction(permissions_validator, account_id,
                                       instruction, e.wsv)),
               world_state_view_temp |-> e.wsv]
         ELSE validate_instructions_CheckClone(self, i + 1, e.wsv, world_state_view,
                                               permissions_validator, is_genesis)

\* Mutation of validate_instructions: the permission of an instruction is
\* checked before it is executed.
RECURSIVE validate_instructions_PermissionFirst(_, _, _, _, _, _)
validate_instructions_PermissionFirst(self, i, world_state_view_temp, world_state_view, permissions_validator, is_genesis) ==
    IF i > Len(self.payload.instructions)
    THEN [reason |-> NoReason, world_state_view_temp |-> world_state_view_temp]
    ELSE
      LET instruction == self.payload.instructions[i]
          account_id == self.payload.account_id
          e == Execute(instruction, account_id, world_state_view_temp)
      IN IF /\ ~is_genesis
            /\ check_instruction(permissions_validator, account_id,
                                 instruction, world_state_view) # ""
         THEN [reason |-> Reason("NotPermitted",
                     check_instruction(permissions_validator, account_id,
                                       instruction, world_state_view)),
               world_state_view_temp |-> world_state_view_temp]
         ELSE IF ~e.ok
         THEN [reason |-> Reason("InstructionExecution", instruction),
               world_state_view_temp |-> world_state_view_temp]
         ELSE validate_instructions_PermissionFirst(self, i + 1, e.wsv, world_state_view,
                                                    permissions_validator, is_genesis)

\* Mutation of validate_instructions: every instruction is executed on the
\* clone as it was at the start.
RECURSIVE validate_instructions_NoThread(_, _, _, _, _, _)
validate_instructions_NoThread(self, i, world_state_view_temp, world_state_view, permissions_validator, is_genesis) ==
    IF i > Len(self.payload.instructions)
    THEN [reason |-> NoReason, world_state_view_temp |-> world_state_view_temp]
    ELSE
      LET instruction == self.payload.instructions[i]
          account_id == self.payload.account_id
          e == Execute(instruction, account_id, world_state_view_temp)
      IN IF ~e.ok
         THEN [reason |-> Reason("InstructionExecution", instruction),
               world_state_view_temp |-> world_state_view_temp]
         ELSE IF /\ ~is_genesis
                 /\ check_instruction(permissions_validator, account_id,
                                      instruction, world_state_view) # ""
         THEN [reason |-> Reason("NotPermitted",
                     check_instruction(permissions_validator, account_id,
                                       instruction, world_state_view)),
               world_state_view_temp |-> e.wsv]
         ELSE validate_instructions_NoThread(self, i + 1, world_state_view_temp,
                                             world_state_view, permissions_validator,
                                             is_genesis)

\* The instruction loop of validate_internal from instruction i on.
RECURSIVE validate_instructions(_, _, _, _, _, _)
validate_instructions(self, i, world_state_view_temp, world_state_view, permissions_validator, is_genesis) ==
    IF i > Len(self.payload.instructions)
    THEN [reason |-> NoReason, world_state_view_temp |-> world_state_view_temp]
    ELSE
      LET instruction == self.payload.instructions[i]
          account_id == self.payload.account_id
          e == Execute(instruction, account_id, world_state_view_temp)
      IN IF ~e.ok
         THEN [reason |-> Reason("InstructionExecution", instruction),
               world_state_view_temp |-> world_state_view_temp]
         ELSE IF /\ ~is_genesis
                 /\ check_instruction(permissions_validator, account_id,
                                      instruction, world_state_view) # ""
         THEN [reason |-> Reason("NotPermitted",
                     check_instruction(permissions_validator, account_id,
                                       instruction, world_state_view)),
               world_state_view_temp |-> e.wsv]
         ELSE validate_instructions(self, i + 1, e.wsv, world_state_view,
                                    permissions_validator, is_genesis)

\* Mutation of validate_internal: the genesis guard comes after the
\* signatures and the signature condition.
validate_internal_GuardLate(self, world_state_view, permissions_validator, is_genesis) ==
    LET cond == check_signature_condition(self, world_state_view)
        out(reason) == [reason |-> reason, world_state_view |-> world_state_view,
                        world_state_view_temp |-> world_state_view]
    IN IF ~AllVerify(self.signatures, AcceptedTransaction_hash(self))
       THEN out(Reason("SignatureVerification", ""))
       ELSE IF cond.err # ""
       THEN out(Reason("UnsatisfiedSignatureCondition", cond.err))
       ELSE IF ~cond.ok
       THEN out(Reason("UnsatisfiedSignatureCondition", "Signature condition not satisfied."))
       ELSE IF ~is_genesis /\ self.payload.account_id = genesis_account
       THEN out(Reason("UnexpectedGenesisAccountSignature", ""))
       ELSE LET r == validate_instructions(self, 1, world_state_view, world_state_view,
                                           permissions_validator, is_genesis)
            IN [reason |-> r.reason, world_state_view |-> world_state_view,
                world_state_view_temp |-> r.world_state_view_temp]

\* AcceptedTransaction::validate_internal: the reason of the rejection or
\* NoReason, with the world state of the caller and the clone after the call.
validate_internal(self, world_state_view, permissions_validator, is_genesis) ==
    LET cond == check_signature_condition(self, world_state_view)
        out(reason) == [reason |-> reason, world_state_view |-> world_state_view,
                        world_state_view_temp |-> world_state_view]
    IN IF ~is_genesis /\ self.payload.account_id = genesis_account
       THEN out(Reason("UnexpectedGenesisAccountSignature", ""))
       ELSE IF ~AllVerify(self.signatures, AcceptedTransaction_hash(self))
       THEN out(Reason("SignatureVerification", ""))
       ELSE IF cond.err # ""
       THEN out(Reason("UnsatisfiedSignatureCondition", cond.err))
       ELSE IF ~cond.ok
       THEN out(Reason("UnsatisfiedSignatureCondition", "Signature condition not satisfied."))
       ELSE LET r == validate_instructions(self, 1, world_state_view, world_state_view,
                                           permissions_validator, is_genesis)
            IN [reason |-> r.reason, world_state_view |-> world_state_view,
                world_state_view_temp |-> r.world_state_view_temp]

\* Mutation of reject: the rejected transaction is built anew, with the
\* time of the rejection as its creation time.
reject_Restamped(self, rejection_reason) ==
    [payload |-> [self.payload EXCEPT !.creation_time = @ + 1],
     signatures |-> self.signatures,
     rejection_reason |-> rejection_reason]

\* AcceptedTransaction::reject
reject(self, rejection_reason) ==
    [payload |-> self.payload, signatures |-> self.signatures,
     rejection_reason |-> rejection_reason]

ValidTransaction(payload, signatures) == [payload |-> payload, signatures |-> signatures]

\* Mutation of validate: the clone is written back to the world state of
\* the caller.
AcceptedTransaction_validate_WriteBack(self, world_state_view, permissions_validator, is_genesis) ==
    LET v == validate_internal(self, world_state_view, permissions_validator, is_genesis)
    IN IF v.reason = NoReason
       THEN [valid |-> TRUE, tx |-> ValidTransaction(self.payload, self.signatures),
             world_state_view |-> v.world_state_view_temp]
       ELSE [valid |-> FALSE, tx |-> reject(self, v.reason),
             world_state_view |-> v.world_state_view_temp]

\* AcceptedTransaction::validate: a ValidTransaction when validate_internal
\* found no reason, the RejectedTransaction otherwise; the world state of the
\* caller is only read.
AcceptedTransaction_validate(self, world_state_view, permissions_validator, is_genesis) ==
    LET v == validate_internal(self, world_state_view, permissions_validator, is_genesis)
    IN IF v.reason = NoReason
       THEN [valid |-> TRUE, tx |-> ValidTransaction(self.payload, self.signatures),
             world_state_view |-> v.world_state_view]
       ELSE [valid |-> FALSE, tx |-> reject(self, v.reason),
             world_state_view |-> v.world_state_view]

\* The loop of ValidTransaction::proceed from instruction i on: the clone
\* after the last instruction, or the failure.
RECURSIVE proceed_from(_, _, _)
proceed_from(self, i, world_state_view_temp) ==
    IF i > Len(self.payload.instructions)
    THEN [ok |-> TRUE, world_state_view_temp |-> world_state_view_temp]
    ELSE LET e == Execute(self.payload.instructions[i], self.payload.account_id,
                          world_state_view_temp)
         IN IF ~e.ok
            THEN [ok |-> FALSE, world_state_view_temp |-> world_state_view_temp]
            ELSE proceed_from(self, i + 1, e.wsv)

\* Mutation of proceed: the world state is overwritten with the clone as it
\* is when the loop ends, also after a failure.
proceed_Partial(self, world_state_view) ==
    LET r == proceed_from(self, 1, world_state_view)
    IN [ok |-> r.ok, world_state_view |-> r.world_state_view_temp]

\* ValidTransaction::proceed: the world state is overwritten with the clone
\* only after every instruction has succeeded.
proceed(self, world_state_view) ==
    LET r == proceed_from(self, 1, world_state_view)
    IN IF r.ok
       THEN [ok |-> TRUE, world_state_view |-> r.world_state_view_temp]
       ELSE [ok |-> FALSE, world_state_view |-> world_state_view]

\* -------------------------------------------------------- transaction inputs
InstructionSeqs == UNION {[1..n -> Instructions] : n \in 0..MaxInstructions}

\* Transaction::new, and the same transaction as it may come from the wire
\* with a signature that names alice's key and was made by another.
NewTransactions ==
    {Transaction(Payload(a, is, 0, 1000), <<>>) : a \in Accounts, is \in InstructionSeqs}

ForgedSignature(transaction) ==
    [public_key |-> 1, signature |-> SignatureOf_new(3, Transaction_hash(transaction))]

WireTransactions ==
    NewTransactions
        \cup {[tx EXCEPT !.signatures = <<ForgedSignature(tx)>>] : tx \in NewTransactions}

\* --------------------------------------------------------- transaction state
TxState(op, stage, tx, rejection_reason, wsv, pre_wsv, orig, max_instruction_number, permissions_validator, is_genesis, err) ==
    [op |-> op, stage |-> stage, payload |-> tx.payload, signatures |-> tx.signatures,
     rejection_reason |-> rejection_reason, wsv |-> wsv, pre_wsv |-> pre_wsv,
     orig |-> orig, max_instruction_number |-> max_instruction_number,
     permissions_validator |-> permissions_validator, is_genesis |-> is_genesis,
     err |-> err]

\* The transaction the state holds, whatever its stage.
Cur == Transaction(txn.payload, txn.signatures)

InitTx ==
    /\ txn \in {TxState("new", "tx", tx, NoReason, w, w, Transaction_hash(tx),
                        0, "AllowAll", FALSE, <<>>) :
                    tx \in WireTransactions, w \in WorldStateViews}
    /\ chain = <<>>
    /\ call = Idle
    /\ blk = NoBlock
    /\ peer = NoPeer

\* Transaction::sign with the key of alice or of the genesis account.
SignTx ==
    /\ txn.stage = "tx"
    /\ Len(txn.signatures) < MaxTxSigs
    /\ \E key_pair \in {KeyOf("alice"), KeyOf("genesis")} :
         txn' = TxState("sign", "tx", Transaction_sign(Cur, key_pair), NoReason,
                        txn.wsv, txn.wsv, txn.orig, 0, "AllowAll", FALSE, <<>>)
    /\ UNCHANGED <<chain, call, blk, peer>>

\* AcceptedTransaction::from_transaction; the transaction is consumed, and
\* on an error nothing is left of it (stage "none").
Accept ==
    /\ txn.stage = "tx"
    /\ \E max_instruction_number \in {1, MaxInstructions} :
         LET r == from_transaction(Cur, max_instruction_number) IN
         txn' = TxState("accept", IF r.err = <<>> THEN "accepted" ELSE "none",
                        r.accepted, NoReason, txn.wsv, txn.wsv, txn.orig,
                        max_instruction_number, "AllowAll", FALSE, r.err)
    /\ UNCHANGED <<chain, call, blk, peer>>

\* An AcceptedTransaction or a ValidTransaction read from its encoding
\* (both derive Decode): no check is made.
DecodeTx ==
    /\ txn.stage = "tx"
    /\ \E stage \in {"accepted", "valid"} :
         txn' = TxState("decode", stage, Cur, NoReason, txn.wsv, txn.wsv, txn.orig,
                        0, "AllowAll", FALSE, <<>>)
    /\ UNCHANGED <<chain, call, blk, peer>>

\* AcceptedTransaction::validate
Validate ==
    /\ txn.stage = "accepted"
    /\ \E permissions_validator \in PermissionsValidators, is_genesis \in BOOLEAN :
         LET r == AcceptedTransaction_validate(Cur, txn.wsv, permissions_validator,
                                               is_genesis) IN
         txn' = TxState("validate", IF r.valid THEN "valid" ELSE "rejected", r.tx,
                        IF r.valid THEN NoReason ELSE r.tx.rejection_reason,
                        r.world_state_view, txn.wsv, txn.orig, 0,
                        permissions_validator, is_genesis, <<>>)
    /\ UNCHANGED <<chain, call, blk, peer>>

\* ValidTransaction::proceed on the world state.
Proceed ==
    /\ txn.stage = "valid"
    /\ LET r == proceed(Cur, txn.wsv) IN
       txn' = TxState("proceed", "valid", Cur, NoReason, r.world_state_view, txn.wsv,
                      txn.orig, 0, "AllowAll", FALSE,
                      IF r.ok THEN <<>> ELSE <<"Failed to execute instruction">>)
    /\ UNCHANGED <<chain, call, blk, peer>>

\* From<ValidTransaction> and From<RejectedTransaction> for
\* AcceptedTransaction: the payload and the signatures are taken over, the
\* rejection reason is dropped.
AcceptedTransaction_from(transaction) ==
    Transaction(transaction.payload, transaction.signatures)

\* A Valid or a Rejected transaction is converted into an Accepted one.
IntoAccepted ==
    /\ txn.stage \in {"valid", "rejected"}
    /\ txn' = TxState(IF txn.stage = "valid" THEN "from_valid" ELSE "from_rejected",
                      "accepted",
                      AcceptedTransaction_from(reject(Cur, txn.rejection_reason)),
                      NoReason, txn.wsv, txn.wsv, txn.orig, 0, "AllowAll", FALSE, <<>>)
    /\ UNCHANGED <<chain, call, blk, peer>>

NextTx == SignTx \/ Accept \/ DecodeTx \/ Validate \/ Proceed \/ IntoAccepted

SpecTx == InitTx /\ [][NextTx]_vars

InAccept == txn.op = "accept"
InValidate == txn.op = "validate"
InProceed == txn.op = "proceed"

\* Every signature of the transaction is one made with the key it names
\* over the hash of the payload.
SignaturesGenuine ==
    \A i \in 1..Len(txn.signatures) :
        /\ txn.signatures[i].signature.key = txn.signatures[i].public_key
        /\ txn.signatures[i].signature.payload = Hash_new(PayloadBytes(txn.payload))

\* The instructions executed in order from world state w: the state after
\* the last one, or the failure of the first that fails.
RECURSIVE RunInOrder(_, _, _)
RunInOrder(instructions, account_id, w) ==
    IF instructions = <<>> THEN [ok |-> TRUE, wsv |-> w]
    ELSE LET e == Execute(Head(instructions), account_id, w)
         IN IF ~e.ok THEN [ok |-> FALSE, wsv |-> w]
            ELSE RunInOrder(Tail(instructions), account_id, e.wsv)

\* The first k instructions of the transaction execute from the world state
\* before the call.
ExecutesThrough(k) ==
    RunInOrder(SubSeq(txn.payload.instructions, 1, k), txn.payload.account_id,
               txn.pre_wsv).ok

\* C15: the hash of the transaction, signed or not, of the Accepted, the Valid
\* and the Rejected transaction made from it all equal the hash of the
\* original transaction: no transition changes the hash.
C15_HashStable ==
    /\ txn.stage = "tx" => Transaction_hash(Cur) = txn.orig
    /\ txn.stage = "accepted" => AcceptedTransaction_hash(Cur) = txn.orig
    /\ txn.stage = "valid" => ValidTransaction_hash(Cur) = txn.orig
    /\ txn.stage = "rejected" => RejectedTransaction_hash(Cur) = txn.orig

\* C15 witness: a transaction that was signed and accepted has been rejected.
C15_Witness ==
    /\ InValidate
    /\ txn.stage = "rejected"
    /\ txn.signatures # <<>>
    /\ SignaturesGenuine
    /\ txn.payload.instructions # <<>>

\* C16: from_transaction yields an Accepted transaction exactly when the
\* transaction has at most max_instruction_number instructions and every
\* signature verifies against the hash of the payload; otherwise it is an
\* error and there is no Accepted transaction.  The bound is checked first:
\* too many instructions fail with "Failed to accept transaction" / "Too many
\* instructions in payload" whatever the signatures.
C16_AcceptExactly ==
    InAccept =>
        LET tooMany == Len(txn.payload.instructions) > txn.max_instruction_number IN
        /\ (txn.stage = "accepted") <=> (~tooMany /\ SignaturesGenuine)
        /\ txn.stage = "accepted" => txn.err = <<>>
        /\ txn.stage # "accepted" => (txn.stage = "none" /\ txn.err # <<>>)
        /\ tooMany => txn.err = <<"Failed to accept transaction",
                                  "Too many instructions in payload">>

\* C16 witness: too many instructions and a signature that does not verify.
C16_Witness ==
    /\ InAccept
    /\ Len(txn.payload.instructions) > txn.max_instruction_number
    /\ ~SignaturesGenuine
    /\ txn.err[1] = "Failed to accept transaction"

\* C17: validate with is_genesis = false on a transaction of the genesis
\* account is always Rejected with UnexpectedGenesisAccountSignature, whatever
\* its signatures, signature condition, instructions and permissions; with
\* is_genesis = true it is not rejected for this reason.
C17_GenesisGuard ==
    InValidate =>
        /\ (~txn.is_genesis /\ txn.payload.account_id = genesis_account) =>
              /\ txn.stage = "rejected"
              /\ txn.rejection_reason = Reason("UnexpectedGenesisAccountSignature", "")
        /\ txn.is_genesis =>
              txn.rejection_reason.kind # "UnexpectedGenesisAccountSignature"

\* C17 witness: the genesis account's transaction with a forged signature, a
\* failing instruction and a validator that would deny it is rejected by
\* the guard.
C17_Witness ==
    /\ InValidate
    /\ ~txn.is_genesis
    /\ txn.payload.account_id = genesis_account
    /\ ~SignaturesGenuine
    /\ \E i \in 1..Len(txn.payload.instructions) : txn.payload.instructions[i] = "Fail"
    /\ txn.permissions_validator = "DenyAll"
    /\ txn.rejection_reason.kind = "UnexpectedGenesisAccountSignature"

\* C18: proceed is atomic per transaction: if every instruction executes, the
\* world state becomes the state after executing them in order from the old
\* one; if one fails, proceed is an error and the world state is exactly as
\* before the call.
C18_ProceedAtomic ==
    InProceed =>
        LET r == RunInOrder(txn.payload.instructions, txn.payload.account_id,
                            txn.pre_wsv) IN
        /\ r.ok => (txn.err = <<>> /\ txn.wsv = r.wsv)
        /\ ~r.ok => (txn.err # <<>> /\ txn.wsv = txn.pre_wsv)

\* C18 witness: the first instruction changed the clone, a later one failed,
\* and the world state is as before.
C18_Witness ==
    /\ InProceed
    /\ txn.err # <<>>
    /\ Len(txn.payload.instructions) > 1
    /\ LET e == Execute(txn.payload.instructions[1], txn.payload.account_id,
                        txn.pre_wsv)
       IN e.ok /\ e.wsv # txn.pre_wsv
    /\ txn.wsv = txn.pre_wsv

\* C19: validate never changes the world state passed to it, whether the
\* result is Valid or Rejected and whatever it executed on its clone; only
\* proceed changes the world state.
C19_ValidateReadsOnly ==
    /\ InValidate => txn.wsv = txn.pre_wsv
    /\ txn.wsv # txn.pre_wsv => InProceed

\* C19 witness: validate rejected the transaction after its clone had been
\* changed by an instruction.
C19_Witness ==
    /\ InValidate
    /\ txn.stage = "rejected"
    /\ txn.rejection_reason.kind \in {"InstructionExecution", "NotPermitted"}
    /\ validate_internal(Cur, txn.pre_wsv, txn.permissions_validator,
                         txn.is_genesis).world_state_view_temp # txn.pre_wsv
    /\ txn.wsv = txn.pre_wsv

\* The checks of validate that come before the instructions pass: the
\* genesis guard, the signatures, the signature condition of the account.
PreChecksPass ==
    /\ ~(~txn.is_genesis /\ txn.payload.account_id = genesis_account)
    /\ SignaturesGenuine
    /\ txn.payload.account_id \in txn.pre_wsv.accounts
    /\ \E i \in 1..Len(txn.signatures) :
           txn.signatures[i].public_key = KeyOf(txn.payload.account_id)

\* Instruction i is denied by the validator on the world state passed to
\* validate.
DeniedOnOriginal(i) ==
    check_instruction(txn.permissions_validator, txn.payload.account_id,
                      txn.payload.instructions[i], txn.pre_wsv) # ""

\* C20: the permission check of each instruction reads the world state that
\* was passed to validate, not the clone, and is run only when is_genesis is
\* false: a genesis transaction is never NotPermitted and is Valid even
\* under a validator that denies everything; in a transaction that is not
\* genesis the first instruction that is denied on the original world state,
\* once reached and executed, gives Rejected with NotPermitted, and a
\* transaction with no such instruction is never NotPermitted.
C20_PermissionOnOriginal ==
    InValidate =>
        LET n == Len(txn.payload.instructions) IN
        /\ txn.is_genesis =>
              /\ txn.rejection_reason.kind # "NotPermitted"
              /\ (PreChecksPass /\ ExecutesThrough(n)) => txn.stage = "valid"
        /\ (~txn.is_genesis /\ PreChecksPass) =>
              /\ \A i \in 1..n :
                    (/\ ExecutesThrough(i)
                     /\ DeniedOnOriginal(i)
                     /\ \A j \in 1..(i - 1) : ~DeniedOnOriginal(j))
                        => (/\ txn.stage = "rejected"
                            /\ txn.rejection_reason.kind = "NotPermitted")
        /\ (\A i \in 1..n : ~DeniedOnOriginal(i)) =>
              txn.rejection_reason.kind # "NotPermitted"

\* C20 witness: the first instruction takes the permission token away on
\* the clone, the second is still permitted because the original is read.
C20_Witness ==
    /\ InValidate
    /\ ~txn.is_genesis
    /\ txn.permissions_validator = "ByToken"
    /\ txn.pre_wsv.token
    /\ Len(txn.payload.instructions) > 1
    /\ txn.payload.instructions[1] = "Revoke"
    /\ txn.stage = "valid"

\* C21: Rejected is terminal: once a transaction is Rejected, no operation
\* or conversion takes it back to Accepted or on to Valid.
C21_RejectedIsTerminal ==
    [][txn.stage = "rejected" => txn'.stage = "rejected"]_vars

\* ------------------------------------------------------------------ peer.rs
\* Bounds of the session exploration: Post messages handled by the two
\* sessions together, and faults of the network (an I/O error, bytes changed
\* or added in flight) in one run.
MaxPosts == 2
MaxFaults == 1

MAX_MESSAGE_LENGTH == 2097152
MAX_HANDSHAKE_LENGTH == 255

\* Bytes the AEAD cipher adds to a plaintext (nonce and tag).
CipherOverhead == 28

\* The two ends of one connection: A connects, B has accepted.
Sides == {"A", "B"}
Other(s) == IF s = "A" THEN "B" ELSE "A"

\* K::keypair: each session has its own ephemeral key pair.
SecretKey(s) == IF s = "A" THEN "skA" ELSE "skB"
PublicKeyOf(secret_key) == IF secret_key = "skA" THEN "pkA" ELSE "pkB"

\* K::compute_shared_secret: both orders of two key pairs give one secret; a
\* public key that is no point of the scheme is an error.
compute_shared_secret(secret_key, public_key) ==
    IF public_key = "pkA" THEN [err |-> "", shared |-> {secret_key, "skA"}]
    ELSE IF public_key = "pkB" THEN [err |-> "", shared |-> {secret_key, "skB"}]
    ELSE [err |-> "Keys", shared |-> {}]

\* A string of bytes: its length, the secret it is encrypted under ({} for
\* plaintext) and what it carries.
Bytes(len, key, content) == [len |-> len, key |-> key, content |-> content]
NoBytes == Bytes(0, {}, "")

\* What travels on the stream: a hello (garbage of `size` bytes, then a
\* key), a data frame (a u32 length prefix `size`, then the body), or bytes
\* left over by a reader that gave up in the middle.
Token(k, size, body) == [k |-> k, size |-> size, body |-> body]

\* SymmetricEncryptor::encrypt_easy and decrypt_easy
encrypt_easy(cipher, data) == Bytes(data.len + CipherOverhead, cipher, data.content)

decrypt_easy(cipher, data) ==
    IF data.key = cipher /\ data.content # "junk" /\ data.len >= CipherOverhead
    THEN [err |-> "", data |-> Bytes(data.len - CipherOverhead, {}, data.content)]
    ELSE [err |-> "Decrypt", data |-> NoBytes]

\* The messages T of the network, with the length of their encoding.
Msgs ==
    {[id |-> "m1", len |-> 10], [id |-> "m2", len |-> 10],
     [id |-> "empty", len |-> 0],
     [id |-> "edge", len |-> MAX_MESSAGE_LENGTH],
     [id |-> "big", len |-> MAX_MESSAGE_LENGTH + MAX_MESSAGE_LENGTH \div 2]}

\* Encode::encode and Decode::decode of T: only the plaintext of a message
\* parses.
encode(msg) == Bytes(msg.len, {}, msg.id)

decode(data) ==
    IF data.key = {} /\ data.content \in {m.id : m \in Msgs}
    THEN [err |-> "", data |-> data.content]
    ELSE [err |-> "Parse", data |-> ""]

\* Peer: the fields of a session that its handlers read and write, and where
\* its actor stands: in the handshake loop of on_start ("handshake"), inside
\* send_client_hello waiting for the server hello ("wait_hello"), with its
\* read stream subscribed ("stream"), or with the read stream ended
\* ("closed").  forwarded is what the network actor has received from it.
Peer(state, cipher, write, pc, forwarded) ==
    [state |-> state, cipher |-> cipher, write |-> write, pc |-> pc,
     forwarded |-> forwarded]

\* Peer::new
Peer_new(stream, state) == Peer(state, {}, stream, "handshake", <<>>)

\* Garbage::generate draws a length in 64..254.
GarbageLens == {64, 254}

\* Garbage::read of a garbage block whose length byte is `size`.
Garbage_read(size) == IF size < MAX_HANDSHAKE_LENGTH THEN "" ELSE "Handshake"

\* read_client_hello and read_server_hello: skip the garbage, read the key.
\* Of bytes that are no hello the first is taken for the garbage length and
\* 32 of the rest for a key; `guess` says whether the length passes.
read_hello(token, io, guess) ==
    IF io # "" THEN [err |-> "Io", public_key |-> ""]
    ELSE IF token.k # "hello"
    THEN IF guess THEN [err |-> "", public_key |-> "junk"]
         ELSE [err |-> "Handshake", public_key |-> ""]
    ELSE IF Garbage_read(token.size) # "" THEN [err |-> Garbage_read(token.size), public_key |-> ""]
    ELSE [err |-> "", public_key |-> token.body.content]

\* What a hello read leaves at the head of the stream: after an I/O error
\* all of it, after a refused garbage length the bytes behind the length.
left_by_hello(token, err) ==
    IF err = "Io" THEN <<token>>
    ELSE IF err = "Handshake" THEN <<Token("raw", token.body.len, token.body)>>
    ELSE <<>>

\* Mutation of send_hello: nothing is written.
send_hello_Nothing(key, size) == <<>>

\* send_client_hello and send_server_hello: the garbage, then the key.
send_hello(key, size) == <<Token("hello", size, Bytes(32, {}, key))>>

\* Mutation of derive_shared_key: the secret is computed with the session's
\* own public key.
derive_shared_key_Own(self, secret_key, public_key) ==
    [err |-> "", self |-> [self EXCEPT !.cipher = {secret_key}]]

\* Mutation of derive_shared_key: the secret is computed and no cipher is
\* installed.
derive_shared_key_Skip(self, secret_key, public_key) ==
    LET shared == compute_shared_secret(secret_key, public_key)
    IN IF shared.err # "" THEN [err |-> "Keys", self |-> self]
       ELSE [err |-> "", self |-> self]

\* Peer::derive_shared_key
derive_shared_key(self, secret_key, public_key) ==
    LET shared == compute_shared_secret(secret_key, public_key)
    IN IF shared.err # "" THEN [err |-> "Keys", self |-> self]
       ELSE [err |-> "", self |-> [self EXCEPT !.cipher = shared.shared]]

\* The while loop of on_start after one call of handshake(): an error breaks
\* out of it, Ready ends it, and the read stream is subscribed; otherwise
\* the loop goes round again.
on_start_loop(self, err) ==
    IF err # "" \/ self.state = "Ready"
    THEN [self EXCEPT !.pc = "stream"]
    ELSE [self EXCEPT !.pc = "handshake"]

\* Mutation of connect: a failed connect is an error state.
connect_ErrorOnFail(self, ok) ==
    IF ok THEN [self EXCEPT !.write = TRUE, !.state = "ConnectedTo"]
    ELSE [self EXCEPT !.state = "Error"]

\* Peer::connect: ok says whether TcpStream::connect succeeded.
connect(self, ok) ==
    IF ok THEN [self EXCEPT !.write = TRUE, !.state = "ConnectedTo"]
    ELSE self

Out(self, err, written) == [self |-> self, err |-> err, written |-> written]

\* Peer::send_client_hello up to its read: the client hello is written.
send_client_hello(self, secret_key, size, io) ==
    IF io # "" THEN Out(self, "Io", <<>>)
    ELSE Out([self EXCEPT !.pc = "wait_hello"], "",
             send_hello(PublicKeyOf(secret_key), size))

\* Peer::send_client_hello from its read on: the server hello is read and
\* the shared key derived.
read_server_hello(self, secret_key, token, io, guess) ==
    LET hello == read_hello(token, io, guess)
        derived == derive_shared_key(self, secret_key, hello.public_key)
    IN IF hello.err # "" THEN Out(self, hello.err, <<>>)
       ELSE IF derived.err # "" THEN Out(self, derived.err, <<>>)
       ELSE Out([derived.self EXCEPT !.state = "Ready"], "", <<>>)

\* Peer::read_client_hello: the client hello is read, the shared key
\* derived and the server hello written; io names the step that fails.
read_client_hello(self, secret_key, token, size, io, guess) ==
    LET hello == read_hello(token, IF io = "read" THEN io ELSE "", guess)
        derived == derive_shared_key(self, secret_key, hello.public_key)
    IN IF hello.err # "" THEN Out(self, hello.err, <<>>)
       ELSE IF derived.err # "" THEN Out(self, derived.err, <<>>)
       ELSE IF io = "write" THEN Out(derived.self, "Io", <<>>)
       ELSE Out([derived.self EXCEPT !.state = "Ready"], "",
                send_hello(PublicKeyOf(secret_key), size))

\* read_message: the length prefix decides, and as many bytes as it says
\* are the message; of a token that is no frame the first bytes are taken
\* for a prefix, `guess` says whether it passes.
read_message(token, io, guess) ==
    IF io # "" THEN [err |-> "Io", message |-> NoBytes]
    ELSE IF token.k = "frame"
    THEN IF token.size > 0 /\ token.size < MAX_MESSAGE_LENGTH
         THEN IF token.size = token.body.len
              THEN [err |-> "", message |-> token.body]
              ELSE [err |-> "", message |-> Bytes(token.size, {}, "junk")]
         ELSE [err |-> "Format", message |-> NoBytes]
    ELSE IF guess
    THEN [err |-> "", message |-> Bytes(token.body.len, {}, "junk")]
    ELSE [err |-> "Format", message |-> NoBytes]

\* What read_message leaves at the head of the stream: nothing it has
\* consumed; after a refused prefix the body of the frame, if it has one.
left_by_read(token, io) ==
    IF io # "" THEN <<token>>
    ELSE IF /\ token.k = "frame"
            /\ ~(token.size > 0 /\ token.size < MAX_MESSAGE_LENGTH)
            /\ token.body.len > 0
    THEN <<Token("raw", token.body.len, token.body)>>
    ELSE <<>>

In(self, err, fwd) == [self |-> self, err |-> err, fwd |-> fwd]

\* Mutation of handle: a message that does not decrypt is passed on as it is.
handle_message_PassOn(self, result) ==
    IF result.err # "" THEN In(self, result.err, "")
    ELSE
      LET plain == IF self.cipher = {} THEN [err |-> "", data |-> result.message]
                   ELSE decrypt_easy(self.cipher, result.message)
          parsed == decode(plain.data)
      IN IF plain.err # ""
         THEN In([self EXCEPT !.forwarded = Append(@, result.message.content)],
                 plain.err, result.message.content)
         ELSE IF parsed.err # "" THEN In(self, parsed.err, "")
         ELSE In([self EXCEPT !.forwarded = Append(@, parsed.data)], "", parsed.data)

\* Mutation of handle: a decoded message is sent to the network twice.
handle_message_Twice(self, result) ==
    IF result.err # "" THEN In(self, result.err, "")
    ELSE
      LET plain == IF self.cipher = {} THEN [err |-> "", data |-> result.message]
                   ELSE decrypt_easy(self.cipher, result.message)
          parsed == decode(plain.data)
      IN IF plain.err # "" THEN In([self EXCEPT !.state = "Error"], plain.err, "")
         ELSE IF parsed.err # "" THEN In(self, parsed.err, "")
         ELSE In([self EXCEPT !.forwarded = Append(Append(@, parsed.data), parsed.data)],
                 "", parsed.data)

\* Handler<MessageResult>::handle: an error of the read is logged; a message
\* is decrypted when there is a cipher, decoded and sent to the network.
handle_message(self, result) ==
    IF result.err # "" THEN In(self, result.err, "")
    ELSE
      LET plain == IF self.cipher = {} THEN [err |-> "", data |-> result.message]
                   ELSE decrypt_easy(self.cipher, result.message)
          parsed == decode(plain.data)
      IN IF plain.err # "" THEN In([self EXCEPT !.state = "Error"], plain.err, "")
         ELSE IF parsed.err # "" THEN In(self, parsed.err, "")
         ELSE In([self EXCEPT !.forwarded = Append(@, parsed.data)], "", parsed.data)

\* One round of the loop of Peer::stream with the handling of what it
\* yields: readable() fails and the loop breaks, or read_message runs and the
\* loop goes on, whatever it returned.
stream_step(self, token, io, guess) ==
    IF io = "readable"
    THEN In([self EXCEPT !.pc = "closed"], "Io", "")
    ELSE handle_message(self, read_message(token, io, guess))

\* Mutation of send_message: the length is not checked.
send_message_NoCheck(data, io) ==
    IF io # "" THEN [err |-> "Io", written |-> <<>>]
    ELSE [err |-> "", written |-> <<Token("frame", data.len, data)>>]

\* Mutation of send_message: the prefix counts its own four bytes.
send_message_PrefixOff(data, io) ==
    IF data.len > MAX_MESSAGE_LENGTH THEN [err |-> "Format", written |-> <<>>]
    ELSE IF io # "" THEN [err |-> "Io", written |-> <<>>]
    ELSE [err |-> "", written |-> <<Token("frame", data.len + 4, data)>>]

\* send_message: the frame written, or the error.
send_message(data, io) ==
    IF data.len > MAX_MESSAGE_LENGTH THEN [err |-> "Format", written |-> <<>>]
    ELSE IF io # "" THEN [err |-> "Io", written |-> <<>>]
    ELSE [err |-> "", written |-> <<Token("frame", data.len, data)>>]

\* Mutation of handle_post: a frame that went out makes a session with a
\* cipher Ready again.
handle_post_Recover(self, msg, io) ==
    IF ~self.write THEN Out(self, "NotConnected", <<>>)
    ELSE
      LET data == IF self.cipher = {} THEN encode(msg)
                  ELSE encrypt_easy(self.cipher, encode(msg))
          sent == send_message(data, io)
      IN IF sent.err # "" THEN Out([self EXCEPT !.state = "Error"], sent.err, <<>>)
         ELSE IF self.cipher # {} THEN Out([self EXCEPT !.state = "Ready"], "", sent.written)
         ELSE Out(self, "", sent.written)

\* Handler<Post>::handle
handle_post(self, msg, io) ==
    IF ~self.write THEN Out(self, "NotConnected", <<>>)
    ELSE
      LET data == IF self.cipher = {} THEN encode(msg)
                  ELSE encrypt_easy(self.cipher, encode(msg))
          sent == send_message(data, io)
      IN IF sent.err # "" THEN Out([self EXCEPT !.state = "Error"], sent.err, <<>>)
         ELSE Out(self, "", sent.written)

\* The state of the two sessions of a connection: the sessions, the bytes on
\* their way to each, the last step taken (who, which handler, the session
\* before it, its error, what it wrote and what it forwarded), the faults
\* and posts so far, the messages each session has written a frame for,
\* and the parity of the rounds of on_start's loop that changed nothing.
Ev(who, op, pre, err, wrote, fwd) ==
    [who |-> who, op |-> op, pre |-> pre, err |-> err, wrote |-> wrote, fwd |-> fwd]

PeerState(sess, inbox, ev, faults, posts) ==
    [op |-> "peer", sess |-> sess, inbox |-> inbox, ev |-> ev,
     faults |-> faults, posts |-> posts, sent |-> [s \in Sides |-> <<>>],
     spin |-> 0]

NoEv == Ev("", "none", Peer_new(FALSE, "Connecting"), "", <<>>, "")

\* Whether an I/O fault may be drawn: "" is no fault.
IoChoices(ios) == IF peer.faults < MaxFaults THEN ios \cup {""} ELSE {""}
Faults(io) == IF io = "" THEN peer.faults ELSE peer.faults + 1

HeadOr(q) == IF q = <<>> THEN Token("raw", 0, NoBytes) ELSE Head(q)
TailOr(q) == IF q = <<>> THEN <<>> ELSE Tail(q)

\* The initiator is created with no stream in Connecting or with its stream
\* in ConnectedTo, the acceptor with its stream in ConnectedFrom.
InitPeer ==
    /\ chain = <<>>
    /\ call = Idle
    /\ blk = NoBlock
    /\ txn = NoTxn
    /\ \E a \in {"Connecting", "ConnectedTo"} :
         peer = PeerState([s \in Sides |->
                             IF s = "A" THEN Peer_new(a = "ConnectedTo", a)
                             ELSE Peer_new(TRUE, "ConnectedFrom")],
                          [s \in Sides |-> <<>>], NoEv, 0, 0)

\* handshake() in Connecting
ConnectStep(s, ok) ==
    LET self == peer.sess[s]
    IN /\ peer.op = "peer"
       /\ self.pc = "handshake"
       /\ self.state = "Connecting"
       /\ peer' = [peer EXCEPT
                     !.sess[s] = on_start_loop(connect(self, ok), ""),
                     !.ev = Ev(s, "connect", self, IF ok THEN "" ELSE "Connect", <<>>, "")]
       /\ UNCHANGED <<chain, call, blk, txn>>

Connect(s) == \E ok \in BOOLEAN : ConnectStep(s, ok)

\* handshake() in ConnectedTo, up to the wait for the server hello
SendClientHelloStep(s, size, io) ==
    LET self == peer.sess[s]
        r == send_client_hello(self, SecretKey(s), size, io)
    IN /\ peer.op = "peer"
       /\ self.pc = "handshake"
       /\ self.state = "ConnectedTo"
       /\ peer' = [peer EXCEPT
                     !.sess[s] = IF r.err # "" THEN on_start_loop(r.self, r.err) ELSE r.self,
                     !.inbox[Other(s)] = @ \o r.written,
                     !.ev = Ev(s, "send_client_hello", self, r.err, r.written, ""),
                     !.faults = Faults(io)]
       /\ UNCHANGED <<chain, call, blk, txn>>

SendClientHello(s) ==
    \E size \in GarbageLens, io \in IoChoices({"Io"}) : SendClientHelloStep(s, size, io)

\* handshake() in ConnectedTo, from the arrival of the server hello
ReadServerHelloStep(s, io, guess) ==
    LET self == peer.sess[s]
        token == HeadOr(peer.inbox[s])
        r == read_server_hello(self, SecretKey(s), token, io, guess)
    IN /\ peer.op = "peer"
       /\ self.pc = "wait_hello"
       /\ io = "" => peer.inbox[s] # <<>>
       /\ peer' = [peer EXCEPT
                     !.sess[s] = on_start_loop(r.self, r.err),
                     !.inbox[s] = IF io # "" THEN @
                                  ELSE left_by_hello(token, r.err) \o TailOr(@),
                     !.ev = Ev(s, "read_server_hello", self, r.err, <<>>, ""),
                     !.faults = Faults(io)]
       /\ UNCHANGED <<chain, call, blk, txn>>

ReadServerHello(s) ==
    \E io \in IoChoices({"Io"}), guess \in BOOLEAN : ReadServerHelloStep(s, io, guess)

\* handshake() in ConnectedFrom
ReadClientHelloStep(s, size, io, guess) ==
    LET self == peer.sess[s]
        token == HeadOr(peer.inbox[s])
        r == read_client_hello(self, SecretKey(s), token, size, io, guess)
    IN /\ peer.op = "peer"
       /\ self.pc = "handshake"
       /\ self.state = "ConnectedFrom"
       /\ io # "read" => peer.inbox[s] # <<>>
       /\ peer' = [peer EXCEPT
                     !.sess[s] = on_start_loop(r.self, r.err),
                     !.inbox[s] = IF io = "read" THEN @
                                  ELSE left_by_hello(token, r.err) \o TailOr(@),
                     !.inbox[Other(s)] = @ \o r.written,
                     !.ev = Ev(s, "read_client_hello", self, r.err, r.written, ""),
                     !.faults = Faults(io)]
       /\ UNCHANGED <<chain, call, blk, txn>>

ReadClientHello(s) ==
    \E size \in GarbageLens, io \in IoChoices({"read", "write"}), guess \in BOOLEAN :
        ReadClientHelloStep(s, size, io, guess)

\* One item of the read stream and its handling
ReadFrameStep(s, io, guess) ==
    LET self == peer.sess[s]
        token == HeadOr(peer.inbox[s])
        r == stream_step(self, token, io, guess)
    IN /\ peer.op = "peer"
       /\ self.pc = "stream"
       /\ io = "" => peer.inbox[s] # <<>>
       /\ peer' = [peer EXCEPT
                     !.sess[s] = r.self,
                     !.inbox[s] = IF io # "" THEN @
                                  ELSE left_by_read(token, io) \o TailOr(@),
                     !.ev = Ev(s, "read", self, r.err, <<>>, r.fwd),
                     !.faults = Faults(io)]
       /\ UNCHANGED <<chain, call, blk, txn>>

ReadFrame(s) ==
    \E io \in IoChoices({"readable", "read"}), guess \in BOOLEAN : ReadFrameStep(s, io, guess)

\* A Post message is handled
PostStep(s, msg, io) ==
    LET self == peer.sess[s]
        r == handle_post(self, msg, io)
    IN /\ peer.op = "peer"
       /\ self.pc \in {"stream", "closed"}
       /\ peer.posts < MaxPosts
       /\ peer' = [peer EXCEPT
                     !.sess[s] = r.self,
                     !.inbox[Other(s)] = @ \o r.written,
                     !.ev = Ev(s, "post", self, r.err, r.written, ""),
                     !.faults = Faults(io),
                     !.posts = @ + 1,
                     !.sent[s] = IF r.written = <<>> THEN @ ELSE Append(@, msg.id)]
       /\ UNCHANGED <<chain, call, blk, txn>>

Post(s) == \E msg \in Msgs, io \in IoChoices({"Io"}) : PostStep(s, msg, io)

\* The network changes the bytes at the head of a stream: the garbage
\* length or the key of a hello, the body of a frame.
Tampered(token) ==
    IF token.k = "hello"
    THEN {[token EXCEPT !.size = MAX_HANDSHAKE_LENGTH],
          [token EXCEPT !.body.content = "bad"]}
    ELSE {[token EXCEPT !.body.content = "junk"]}

Tamper(s) ==
    /\ peer.op = "peer"
    /\ peer.faults < MaxFaults
    /\ peer.inbox[s] # <<>>
    /\ \E token \in Tampered(Head(peer.inbox[s])) :
         peer' = [peer EXCEPT !.inbox[s] = <<token>> \o Tail(@),
                              !.ev = Ev(s, "tamper", peer.sess[s], "", <<>>, ""),
                              !.faults = @ + 1]
    /\ UNCHANGED <<chain, call, blk, txn>>

\* The remote end writes a frame whose length prefix is out of range.
BadPrefixes == {0, MAX_MESSAGE_LENGTH}

Inject(s) ==
    /\ peer.op = "peer"
    /\ peer.faults < MaxFaults
    /\ peer.sess[s].pc = "stream"
    /\ \E size \in BadPrefixes :
         peer' = [peer EXCEPT
                    !.inbox[s] = @ \o <<Token("frame", size, Bytes(size, {}, "junk"))>>,
                    !.ev = Ev(s, "inject", peer.sess[s], "", <<>>, ""),
                    !.faults = @ + 1]
    /\ UNCHANGED <<chain, call, blk, txn>>

NextPeer ==
    \E s \in Sides :
        \/ Connect(s)
        \/ SendClientHello(s)
        \/ ReadServerHello(s)
        \/ ReadClientHello(s)
        \/ ReadFrame(s)
        \/ Post(s)
        \/ Tamper(s)
        \/ Inject(s)

SpecPeer == InitPeer /\ [][NextPeer]_vars

PeerTypeOK == peer.op = "peer" /\ peer.faults <= MaxFaults /\ peer.posts <= MaxPosts

\* The same connection on a reliable stream with no I/O error: the initiator
\* starts in ConnectedTo, the acceptor in ConnectedFrom, and the runtime
\* runs the handshake of each session whenever it can take a step.
InitPeerLive ==
    /\ chain = <<>>
    /\ call = Idle
    /\ blk = NoBlock
    /\ txn = NoTxn
    /\ peer = PeerState([s \in Sides |->
                           IF s = "A" THEN Peer_new(TRUE, "ConnectedTo")
                           ELSE Peer_new(TRUE, "ConnectedFrom")],
                        [s \in Sides |-> <<>>], NoEv, 0, 0)

HandshakeLive(s) ==
    \/ \E size \in GarbageLens : SendClientHelloStep(s, size, "")
    \/ ReadServerHelloStep(s, "", TRUE)
    \/ \E size \in GarbageLens : ReadClientHelloStep(s, size, "", TRUE)

ReadFrameLive(s) == ReadFrameStep(s, "", TRUE)

PostLive(s) == \E msg \in Msgs : PostStep(s, msg, "")

NextPeerLive ==
    \E s \in Sides :
        \/ HandshakeLive(s)
        \/ ReadFrameLive(s)
        \/ PostLive(s)

SpecPeerLive ==
    /\ InitPeerLive
    /\ [][NextPeerLive]_vars
    /\ WF_vars(HandshakeLive("A"))
    /\ WF_vars(HandshakeLive("B"))

\* The server hello is on its way to the initiator only once the initiator
\* has written its client hello and the acceptor has read it.
HelloOrder ==
    /\ (\E i \in 1..Len(peer.inbox["A"]) : peer.inbox["A"][i].k = "hello")
          => /\ peer.sess["A"].pc = "wait_hello"
             /\ peer.sess["B"].cipher # {}
             /\ peer.inbox["B"] = <<>> \/ peer.inbox["B"][1].k # "hello"
    /\ peer.sess["A"].pc = "wait_hello" /\ peer.sess["B"].pc = "handshake"
          => peer.inbox["B"] # <<>> /\ peer.inbox["B"][1].k = "hello"

\* C22: with one session in ConnectedTo, the remote in ConnectedFrom, a
\* reliable stream and no I/O or key error, both sessions eventually reach
\* Ready; the hello exchange cannot deadlock, the client hello being written
\* before the server hello is read and read before the server hello is
\* written.
C22_HandshakeProgress ==
    /\ <>(peer.sess["A"].state = "Ready")
    /\ <>(peer.sess["B"].state = "Ready")
    /\ []HelloOrder

C22_Witness ==
    /\ peer.ev.op = "read_server_hello"
    /\ peer.ev.pre.state = "ConnectedTo"
    /\ peer.sess["A"].state = "Ready"
    /\ peer.sess["B"].state = "Ready"

BothReady == peer.sess["A"].state = "Ready" /\ peer.sess["B"].state = "Ready"

StateEdges ==
    {<<"Connecting", "ConnectedTo">>, <<"ConnectedTo", "Ready">>,
     <<"ConnectedFrom", "Ready">>}

\* C24: the state of a session changes only along Connecting -> ConnectedTo,
\* ConnectedTo -> Ready, ConnectedFrom -> Ready and any -> Error; a failed
\* connect leaves it in Connecting; it never returns from Ready to a state
\* before the handshake.
C24_StateEdges ==
    [][/\ \A s \in Sides :
            \/ peer'.sess[s].state = peer.sess[s].state
            \/ <<peer.sess[s].state, peer'.sess[s].state>> \in StateEdges
            \/ peer'.sess[s].state = "Error"
       /\ peer'.ev.op = "connect" /\ peer'.ev.err # ""
            => peer'.sess[peer'.ev.who].state = "Connecting"]_vars

C24_Witness ==
    /\ peer.ev.op = "connect"
    /\ peer.ev.err = "Connect"
    /\ peer.ev.pre.state = "Connecting"
    /\ peer.sess["A"].state = "Connecting"

\* The step reads, without an I/O error, a frame for session s whose length
\* prefix is in range.
ReadsFrame(s) ==
    /\ peer'.ev.op = "read"
    /\ peer'.ev.who = s
    /\ peer'.faults = peer.faults
    /\ peer.inbox[s] # <<>>
    /\ Head(peer.inbox[s]).k = "frame"
    /\ Head(peer.inbox[s]).size > 0
    /\ Head(peer.inbox[s]).size < MAX_MESSAGE_LENGTH

\* C25: in Ready, an inbound frame that fails decryption moves the session
\* to Error and is discarded: nothing is forwarded to the network.
C25_DecryptFailureIsError ==
    [][\A s \in Sides :
         /\ ReadsFrame(s)
         /\ peer.sess[s].state = "Ready"
         /\ decrypt_easy(peer.sess[s].cipher, Head(peer.inbox[s]).body).err # ""
         => /\ peer'.sess[s].state = "Error"
            /\ peer'.sess[s].forwarded = peer.sess[s].forwarded
            /\ peer'.ev.fwd = ""]_vars

C25_Witness ==
    /\ peer.ev.op = "read"
    /\ peer.ev.err = "Decrypt"
    /\ peer.ev.pre.state = "Ready"
    /\ peer.sess[peer.ev.who].state = "Error"
    /\ peer.ev.fwd = ""

\* C26: Error is absorbing: no step takes a session out of Error.
C26_ErrorAbsorbing ==
    [][\A s \in Sides :
         peer.sess[s].state = "Error" => peer'.sess[s].state = "Error"]_vars

C26_Witness ==
    /\ peer.ev.op \in {"post", "read"}
    /\ peer.ev.pre.state = "Error"
    /\ peer.ev.pre.cipher # {}
    /\ peer.ev.err = ""
    /\ peer.sess[peer.ev.who].state = "Error"

\* C27: no operation proceeds in Error: while the state of a session is
\* Error, no outbound frame is written for a Post and no inbound frame is
\* decoded and forwarded to the network.
C27_NothingProceedsInError ==
    peer.ev.pre.state = "Error" =>
        /\ peer.ev.op = "post" => peer.ev.wrote = <<>>
        /\ peer.ev.op = "read" => peer.ev.fwd = ""

\* C28: an inbound frame whose length prefix is 0 or at least
\* MAX_MESSAGE_LENGTH gives a Format error, the session goes to Error and
\* it stops reading.
C28_BadPrefixEndsSession ==
    [][\A s \in Sides :
         /\ peer'.ev.op = "read"
         /\ peer'.ev.who = s
         /\ peer'.faults = peer.faults
         /\ peer.inbox[s] # <<>>
         /\ Head(peer.inbox[s]).k = "frame"
         /\ Head(peer.inbox[s]).size = 0 \/ Head(peer.inbox[s]).size >= MAX_MESSAGE_LENGTH
         => /\ peer'.ev.err = "Format"
            /\ peer'.sess[s].state = "Error"
            /\ peer'.sess[s].pc = "closed"]_vars

\* C29: any fatal error of a session, in a handshake step (Io, Handshake,
\* Keys) or an I/O error while reading frames, takes the session to Error,
\* after which it ends: no further read is attempted.
C29_FatalErrorEndsSession ==
    /\ peer.ev.op \in {"send_client_hello", "read_server_hello", "read_client_hello", "read"}
    /\ peer.ev.err \in {"Io", "Handshake", "Keys"}
    => /\ peer.sess[peer.ev.who].state = "Error"
       /\ peer.sess[peer.ev.who].pc = "closed"

\* The length of the frame body a Post of msg gives in session self.
WireLength(self, msg) ==
    IF self.cipher = {} THEN msg.len ELSE msg.len + CipherOverhead

\* C30: posting a message whose encoded (with a cipher, encrypted) length is
\* above MAX_MESSAGE_LENGTH makes send_message fail with Format: the session
\* goes to Error and no byte of the message is written.
C30_OversizedPostIsError ==
    [][\A s \in Sides, msg \in Msgs, io \in {"", "Io"} :
         /\ peer'.ev.op = "post"
         /\ peer'.ev.who = s
         /\ WireLength(peer.sess[s], msg) > MAX_MESSAGE_LENGTH
         /\ PostStep(s, msg, io)
         => /\ peer'.ev.err = "Format"
            /\ peer'.sess[s].state = "Error"
            /\ peer'.ev.wrote = <<>>
            /\ peer'.inbox[Other(s)] = peer.inbox[Other(s)]]_vars

C30_Witness ==
    /\ peer.ev.op = "post"
    /\ peer.ev.err = "Format"
    /\ peer.ev.pre.state = "Ready"
    /\ peer.ev.wrote = <<>>
    /\ peer.sess[peer.ev.who].state = "Error"

\* C31: every frame send_message writes carries a length prefix L with
\* 1 <= L < MAX_MESSAGE_LENGTH, so that every length send_message accepts
\* is accepted by read_message on the other side.
C31_SenderWithinReaderBounds ==
    peer.ev.op = "post" =>
        \A i \in 1..Len(peer.ev.wrote) :
            /\ peer.ev.wrote[i].size >= 1
            /\ peer.ev.wrote[i].size < MAX_MESSAGE_LENGTH
            /\ read_message(peer.ev.wrote[i], "", TRUE).err = ""

\* The bytes the Post handler of session self hands to send_message.
PostData(self, msg) ==
    IF self.cipher = {} THEN encode(msg) ELSE encrypt_easy(self.cipher, encode(msg))

\* C32: framing round trip: for every payload m with
\* 1 <= |m| < MAX_MESSAGE_LENGTH, what send_message(m) writes is read back by
\* read_message as exactly m, and reading it consumes exactly that frame, so
\* that consecutive frames on one stream are each recovered.
C32_FramingRoundTrip ==
    [][\A s \in Sides :
         /\ \A msg \in Msgs :
              /\ peer'.ev.op = "post"
              /\ peer'.ev.who = s
              /\ PostData(peer.sess[s], msg).len >= 1
              /\ PostData(peer.sess[s], msg).len < MAX_MESSAGE_LENGTH
              /\ PostStep(s, msg, "")
              => /\ Len(peer'.ev.wrote) = 1
                 /\ peer'.inbox[Other(s)] = peer.inbox[Other(s)] \o peer'.ev.wrote
                 /\ read_message(peer'.ev.wrote[1], "", TRUE)
                      = [err |-> "", message |-> PostData(peer.sess[s], msg)]
                 /\ left_by_read(peer'.ev.wrote[1], "") = <<>>
         /\ ReadsFrame(s) => peer'.inbox[s] = Tail(peer.inbox[s])]_vars

C32_Witness ==
    /\ peer.ev.op = "read"
    /\ peer.ev.err = ""
    /\ peer.ev.fwd = "m2"
    /\ peer.ev.pre.forwarded = <<"m1">>
    /\ peer.inbox[peer.ev.who] = <<>>

\* Whether a is b with some of its elements left out.
RECURSIVE IsSubseq(_, _)
IsSubseq(a, b) ==
    IF a = <<>> THEN TRUE
    ELSE IF b = <<>> THEN FALSE
    ELSE IF Head(a) = Head(b) THEN IsSubseq(Tail(a), Tail(b))
    ELSE IsSubseq(a, Tail(b))

\* C33: within one session messages are delivered FIFO: what a session has
\* forwarded to its network actor is, in the order of the sender's Posts,
\* part of what the sender has written, with nothing reordered or doubled.
C33_Fifo ==
    \A s \in Sides : IsSubseq(peer.sess[s].forwarded, peer.sent[Other(s)])

C33_Witness ==
    /\ peer.ev.op = "read"
    /\ peer.ev.who = "B"
    /\ peer.sent["A"] = <<"m2", "m1">>
    /\ peer.sess["B"].forwarded = <<"m2", "m1">>

\* handshake() in Ready or Error: a warning, nothing else, and Ok.
handshake_idle(self) == self

\* One round of the loop of on_start for a session that is in Ready or in
\* Error: in Ready the loop condition ends it; in Error handshake() is
\* called, returns Ok and the loop goes round again (spin is the parity of
\* these rounds).
OnStartLoop(s) ==
    LET self == peer.sess[s]
    IN /\ peer.op = "peer"
       /\ self.pc = "handshake"
       /\ self.state \in {"Ready", "Error"}
       /\ peer' = [peer EXCEPT
                     !.sess[s] = on_start_loop(IF self.state = "Ready" THEN self
                                               ELSE handshake_idle(self), ""),
                     !.ev = Ev(s, "on_start", self, "", <<>>, ""),
                     !.spin = IF self.state = "Error" THEN 1 - @ ELSE @]
       /\ UNCHANGED <<chain, call, blk, txn>>

\* A session created in any state that leaves Peer::new with a stream, the
\* remote one having accepted; no fault of the network, and the runtime runs
\* on_start of each session whenever it can take a step.
InitPeerStart ==
    /\ chain = <<>>
    /\ call = Idle
    /\ blk = NoBlock
    /\ txn = NoTxn
    /\ \E a \in {"ConnectedTo", "Ready", "Error"} :
         peer = PeerState([s \in Sides |->
                             IF s = "A" THEN Peer_new(TRUE, a)
                             ELSE Peer_new(TRUE, "ConnectedFrom")],
                          [s \in Sides |-> <<>>], NoEv, 0, 0)

NextPeerStart ==
    \E s \in Sides :
        \/ OnStartLoop(s)
        \/ HandshakeLive(s)
        \/ ReadFrameLive(s)
        \/ PostLive(s)

SpecPeerStart ==
    /\ InitPeerStart
    /\ [][NextPeerStart]_vars
    /\ WF_vars(OnStartLoop("A") \/ HandshakeLive("A"))
    /\ WF_vars(OnStartLoop("B") \/ HandshakeLive("B"))

\* C37: the handshake loop of on_start terminates for a session whose state
\* is Error: no handshake operation is performed and the loop is left.
C37_LoopEndsInError ==
    (peer.sess["A"].state = "Error" /\ peer.sess["A"].pc = "handshake")
        ~> (peer.sess["A"].pc # "handshake")

\* C39: whenever a session that started in Connecting, ConnectedTo or
\* ConnectedFrom is Ready, its cipher is installed (it is set before the
\* state becomes Ready and never removed), so every frame it writes for a
\* Post in Ready is ciphertext and every inbound frame forwarded in Ready
\* has gone through decryption.
C39_ReadyHasCipher ==
    /\ [](\A s \in Sides : peer.sess[s].state = "Ready" => peer.sess[s].cipher # {})
    /\ [](peer.ev.op = "post" /\ peer.ev.pre.state = "Ready"
            => \A i \in 1..Len(peer.ev.wrote) :
                 /\ peer.ev.wrote[i].body.key # {}
                 /\ peer.ev.wrote[i].body.key = peer.ev.pre.cipher)
    /\ [][\A s \in Sides :
            /\ peer.sess[s].cipher # {} => peer'.sess[s].cipher = peer.sess[s].cipher
            /\ ReadsFrame(s) /\ peer.sess[s].state = "Ready" /\ peer'.ev.fwd # ""
                 => /\ Head(peer.inbox[s]).body.key # {}
                    /\ Head(peer.inbox[s]).body.key = peer.sess[s].cipher]_vars

C39_Witness ==
    /\ peer.ev.op = "post"
    /\ peer.ev.pre.state = "Ready"
    /\ peer.ev.wrote # <<>>
    /\ peer.ev.wrote[1].body.key = peer.ev.pre.cipher
    /\ peer.ev.pre.cipher # {}
    /\ peer.sess[peer.ev.who].state = "Ready"

\* Instruction i is the one validate stops at: those before it execute and
\* are permitted, and it fails to execute or, executed, is denied.
StopsAt(i) ==
    /\ ExecutesThrough(i - 1)
    /\ \A j \in 1..(i - 1) : txn.is_genesis \/ ~DeniedOnOriginal(j)
    /\ ~ExecutesThrough(i) \/ (~txn.is_genesis /\ DeniedOnOriginal(i))

\* The reason of the first check that fails, in the order genesis guard,
\* signatures, signature condition, then per instruction execution before
\* permission; NoReason when none fails.
FirstFailure ==
    LET n == Len(txn.payload.instructions)
        account_id == txn.payload.account_id
    IN IF ~txn.is_genesis /\ account_id = genesis_account
       THEN Reason("UnexpectedGenesisAccountSignature", "")
       ELSE IF ~SignaturesGenuine
       THEN Reason("SignatureVerification", "")
       ELSE IF account_id \notin txn.pre_wsv.accounts
       THEN Reason("UnsatisfiedSignatureCondition", "Account not found")
       ELSE IF \A i \in 1..Len(txn.signatures) :
                  txn.signatures[i].public_key # KeyOf(account_id)
       THEN Reason("UnsatisfiedSignatureCondition", "Signature condition not satisfied.")
       ELSE IF \E i \in 1..n : StopsAt(i)
       THEN LET i == CHOOSE k \in 1..n : StopsAt(k)
            IN IF ~ExecutesThrough(i)
               THEN Reason("InstructionExecution", txn.payload.instructions[i])
               ELSE Reason("NotPermitted",
                           check_instruction(txn.permissions_validator, account_id,
                                             txn.payload.instructions[i], txn.pre_wsv))
       ELSE NoReason

\* C34: validate reports the reason of the first failing check in the order
\* genesis guard, signature verification, signature condition of the
\* account (false, or an error such as account not found), then for each
\* instruction in order its execution before its permission check; it is
\* Valid only if none fails, and no later check is reached after a failure.
C34_FirstFailureReported ==
    InValidate =>
        /\ txn.rejection_reason = FirstFailure
        /\ txn.stage = "valid" <=> FirstFailure = NoReason
        /\ txn.stage = "rejected" <=> FirstFailure # NoReason

C34_Witness ==
    /\ InValidate
    /\ ~txn.is_genesis
    /\ SignaturesGenuine
    /\ txn.payload.account_id = "alice"
    /\ txn.signatures # <<>>
    /\ txn.payload.instructions = <<"Register", "Fail">>
    /\ txn.permissions_validator = "DenyAll"
    /\ txn.rejection_reason = Reason("NotPermitted", "denied")
    /\ txn.stage = "rejected"

\* C40: if validate returns Valid and the world state has not changed
\* since, proceed on the Valid transaction succeeds: validate has executed
\* the same instructions in the same order from the same state on its clone,
\* and what proceed commits is that clone.
C40_ValidProceeds ==
    (InValidate /\ txn.stage = "valid") =>
        /\ txn.wsv = txn.pre_wsv
        /\ proceed(ValidTransaction(txn.payload, txn.signatures), txn.wsv).ok
        /\ proceed(ValidTransaction(txn.payload, txn.signatures), txn.wsv).world_state_view
             = validate_internal(Cur, txn.pre_wsv, txn.permissions_validator,
                                 txn.is_genesis).world_state_view_temp

C40_Witness ==
    /\ InValidate
    /\ txn.stage = "valid"
    /\ txn.payload.instructions = <<"Register", "Unregister">>
    /\ proceed(ValidTransaction(txn.payload, txn.signatures), txn.wsv).ok
    /\ ~proceed(ValidTransaction(txn.payload, <<>>),
                [txn.wsv EXCEPT !.assets = {"rose"}]).ok

\* ------------------------------------------- proof chain, further claims
\* The call in progress reached merge_signatures with slot k (0-based) of
\* the chain as its target, and these are the incoming pairs.
MergeTarget ==
    IF /\ InInsert
       /\ call.new_proof.payload.latest_block_hash = call.latest_block_hash
       /\ ~PreK.panic
       /\ call.new_proof.payload.view_change_index = PreK.count
       /\ PreK.count < Len(call.pre)
    THEN [reached |-> TRUE, k |-> PreK.count, incoming |-> call.new_proof.signatures]
    ELSE IF /\ InMerge
            /\ SurvivesPrune(call.other, call.latest_block_hash)
            /\ ~PreK.panic
            /\ PreK.count < Len(call.pre)
            /\ PreK.count < PrunedLen(call.other, call.latest_block_hash)
    THEN [reached |-> TRUE, k |-> PreK.count,
          incoming |-> call.other[PreK.count + 1].signatures]
    ELSE [reached |-> FALSE, k |-> 0, incoming |-> <<>>]

\* C35: merging signatures into an existing slot (merge_signatures, reached
\* from insert_proof and merge) appends exactly the incoming (node_pos,
\* signature) pairs that verify under the topology key at node_pos against
\* the payload of the target, in their incoming order; the pairs that fail
\* are dropped, and the payload of the target and the signatures it held are
\* unchanged.
C35_MergeSignaturesEffect ==
    MergeTarget.reached =>
        LET k == MergeTarget.k IN
        /\ Len(chain) = Len(call.pre)
        /\ chain[k + 1].payload = call.pre[k + 1].payload
        /\ chain[k + 1].signatures =
               call.pre[k + 1].signatures \o
                   ValidPairs(MergeTarget.incoming, call.pre[k + 1].payload, Topology)

\* The node positions that hold a valid signature anywhere in the chain.
ChainPositions ==
    UNION {ValidPositions(chain[i], Topology) : i \in 1..Len(chain)}

\* C36: a single peer cannot advance the view change alone: with f >= 1,
\* while every valid signature of the chain comes from one and the same
\* node_pos (replays of one pair included), verify_with_state stays 0.
C36_SinglePeerCannotAdvance ==
    (max_faults(Topology) >= 1 /\ Cardinality(ChainPositions) <= 1) =>
        \A h \in Hashes :
            LET v == verify_with_state(chain, Topology, h) IN
            ~v.panic => v.count = 0

\* The chain worked on with one fixed topology and one fixed latest hash.
FixedHash == "h"

InsertProofFixed ==
    /\ call.op = "idle"
    /\ \E new_proof \in NewProofs :
         LET r == insert_proof(chain, new_proof, Topology, FixedHash) IN
         /\ WithinBounds(r.chain)
         /\ chain' = r.chain
         /\ call' = Call("insert_proof", chain, new_proof, <<>>, FixedHash, r.res)
    /\ UNCHANGED <<blk, txn, peer>>

MergeFixed ==
    /\ call.op = "idle"
    /\ \E other \in OtherChains :
         LET r == merge(chain, other, Topology, FixedHash) IN
         /\ WithinBounds(r.chain)
         /\ chain' = r.chain
         /\ call' = Call("merge", chain, NoProof, other, FixedHash, r.res)
    /\ UNCHANGED <<blk, txn, peer>>

NextFixed == InsertProofFixed \/ MergeFixed \/ Return

SpecFixed == Init /\ [][NextFixed]_vars

\* C38: from the empty chain, after any sequence of insert_proof and merge
\* calls with one topology and one latest hash, every entry i has that hash
\* and index i, and len(chain) <= verify_with_state(chain) + 1: at most one
\* proof is without quorum, and it is the last.
C38_ChainStructure ==
    /\ \A i \in 1..Len(chain) :
         /\ chain[i].payload.latest_block_hash = FixedHash
         /\ chain[i].payload.view_change_index = i - 1
    /\ LET v == verify_with_state(chain, Topology, FixedHash) IN
       ~v.panic /\ Len(chain) <= v.count + 1

\* What of C38 holds whenever verify_with_state returns.
C38_StructureWhereDefined ==
    /\ \A i \in 1..Len(chain) :
         /\ chain[i].payload.latest_block_hash = FixedHash
         /\ chain[i].payload.view_change_index = i - 1
    /\ LET v == verify_with_state(chain, Topology, FixedHash) IN
       ~v.panic => Len(chain) <= v.count + 1

====
